---- MODULE Spec2Model ----
(***************************************************************************)
(* A model of the backcountry forecast collector: the three source         *)
(* adapters (snowforecast, mountainforecast, powdersearch), the shared     *)
(* retrieval / offline-sample policy of BaseSource, and the daily pipeline *)
(* run_daily.                                                              *)
(*                                                                         *)
(* Conventions.                                                            *)
(*   - An optional value is a sequence of length 0 (None) or 1 (Some(x)).  *)
(*   - Cell text is a sequence of one-character strings; identifiers,      *)
(*     URLs parts, attribute values compared only for equality, and ISO    *)
(*     dates are TLA+ strings.                                             *)
(*   - A float is an integer number of hundredths.                         *)
(*   - A call returns [kind |-> "return", value |-> v] or                  *)
(*     [kind |-> "raise", exc |-> e].                                      *)
(*   - A document is the DOM the HTML parser hands to the adapters.        *)
(***************************************************************************)
EXTENDS Integers, Sequences, FiniteSets, TLC

VARIABLES
    \* run_daily (pipeline.py)
    targetDate,   \* the target_date argument
    mountains,    \* the mountains argument (a sequence)
    sources,      \* the sources argument (an ordered map, as a sequence of <<key, adapter>>)
    pc,           \* position of run_daily: "idle" (not running), "start", "loop", "append", "write", "returned", "raised"
    mi, si,       \* loop indexes: current mountain, current source
    daily,        \* the local `daily` between collect and write
    results,      \* the local `results` list
    folder,       \* the output folder: file name -> written document
    events,       \* log of what run_daily did, in order
    outcome,      \* what run_daily handed to its caller
    \* one adapter call (collect, _fetch_with_fallback): inputs and result
    cin, cout,
    \* one parser call: inputs and result
    pin, pout,
    \* the collect calls made on the adapter instances so far, in order
    calls

vars == <<targetDate, mountains, sources, pc, mi, si, daily, results, folder,
          events, outcome, cin, cout, pin, pout, calls>>

pipelineVars == <<targetDate, mountains, sources, pc, mi, si, daily, results,
                  folder, events, outcome>>

(***************************************************************************)
(* Optional values and call results                                        *)
(***************************************************************************)
None == <<>>

Some(x) == <<x>>

IsNone(o) == Len(o) = 0

IsSome(o) == Len(o) = 1

Get(o) == o[1]

Return(v) == [kind |-> "return", value |-> v]

Raise(e) == [kind |-> "raise", exc |-> e]

Returned(r) == r.kind = "return"

Raised(r) == r.kind = "raise"

(***************************************************************************)
(* Characters and text                                                     *)
(***************************************************************************)
NBSP == "\\xa0"

IDEOGRAPHIC_SPACE == "\\u3000"

EN_DASH == "\\u2013"

DigitChars == <<"0", "1", "2", "3", "4", "5", "6", "7", "8", "9">>

UpperChars == <<"A", "B", "C", "D", "E", "F", "G", "H", "I", "J", "K", "L", "M",
                "N", "O", "P", "Q", "R", "S", "T", "U", "V", "W", "X", "Y", "Z">>

LowerChars == <<"a", "b", "c", "d", "e", "f", "g", "h", "i", "j", "k", "l", "m",
                "n", "o", "p", "q", "r", "s", "t", "u", "v", "w", "x", "y", "z">>

Range(s) == {s[i] : i \in DOMAIN s}

IsDigit(c) == c \in Range(DigitChars)

IsUpper(c) == c \in Range(UpperChars)

IsLowerAlpha(c) == c \in Range(LowerChars)

\* str.isspace for the characters the documents hold
IsSpace(c) == c \in {" ", "\t", "\n", NBSP, IDEOGRAPHIC_SPACE}

IndexIn(c, s) == CHOOSE i \in DOMAIN s : s[i] = c

DigitVal(c) == IndexIn(c, DigitChars) - 1

LowerChar(c) == IF IsUpper(c) THEN LowerChars[IndexIn(c, UpperChars)] ELSE c

UpperChar(c) == IF IsLowerAlpha(c) THEN UpperChars[IndexIn(c, LowerChars)] ELSE c

\* str.lower(), str.upper()
Lower(s) == [i \in DOMAIN s |-> LowerChar(s[i])]

Upper(s) == [i \in DOMAIN s |-> UpperChar(s[i])]

RECURSIVE LStrip(_)
LStrip(s) == IF s # <<>> /\ IsSpace(Head(s)) THEN LStrip(Tail(s)) ELSE s

RECURSIVE RStrip(_)
RStrip(s) ==
    IF s # <<>> /\ IsSpace(s[Len(s)]) THEN RStrip(SubSeq(s, 1, Len(s) - 1)) ELSE s

\* str.strip()
Strip(s) == RStrip(LStrip(s))

\* does `sub` occur in s at position i
OccursAt(sub, s, i) ==
    /\ i >= 1
    /\ i + Len(sub) - 1 <= Len(s)
    /\ \A k \in 1..Len(sub) : s[i + k - 1] = sub[k]

\* `sub in s`
Contains(sub, s) == \E i \in 1..(Len(s) + 1) : OccursAt(sub, s, i)

\* str.replace(old, new), old non-empty
RECURSIVE Replace(_, _, _)
RECURSIVE ReplaceFrom(_, _, _, _)
Replace(s, old, new) ==
    IF ~Contains(old, s) THEN s
    ELSE ReplaceFrom(s, old, new, CHOOSE i \in 1..Len(s) :
                                      /\ OccursAt(old, s, i)
                                      /\ \A k \in 1..(i - 1) : ~OccursAt(old, s, k))

\* the leftmost occurrence of old, at position i, replaced, and those after it
ReplaceFrom(s, old, new, i) ==
    SubSeq(s, 1, i - 1) \o new \o Replace(SubSeq(s, i + Len(old), Len(s)), old, new)

\* str.split(): the maximal runs of non-space characters
RECURSIVE SplitFrom(_)
SplitFrom(s) ==
    IF s = <<>> THEN <<>>
    ELSE IF IsSpace(Head(s)) THEN SplitFrom(LStrip(s))
    ELSE <<SubSeq(s, 1, Cardinality({n \in 1..Len(s) : \A k \in 1..n : ~IsSpace(s[k])}))>>
         \o SplitFrom(SubSeq(s, 1 + Cardinality({n \in 1..Len(s) :
                                                    \A k \in 1..n : ~IsSpace(s[k])}), Len(s)))

Split(s) == SplitFrom(s)

\* length of the longest prefix of s, from position i, whose characters satisfy a class
DigitRun(s, i) == Cardinality({n \in i..Len(s) : \A k \in i..n : IsDigit(s[k])})

UpperRun(s, i) == Cardinality({n \in i..Len(s) : \A k \in i..n : IsUpper(s[k])})

(***************************************************************************)
(* Numbers: _NUM_RE, float(), int(), round(x / 3.6, 2), repr(float)        *)
(***************************************************************************)
\* value of a run of digits
RECURSIVE DigitsVal(_)
DigitsVal(ds) ==
    IF ds = <<>> THEN 0 ELSE 10 * DigitsVal(SubSeq(ds, 1, Len(ds) - 1)) + DigitVal(ds[Len(ds)])

\* _NUM_RE = -?\d+(?:\.\d+)? can match starting at position i
NumStartsAt(s, i) ==
    \/ IsDigit(s[i])
    \/ s[i] = "-" /\ i + 1 <= Len(s) /\ IsDigit(s[i + 1])

\* last position of the (greedy) match of _NUM_RE that starts at i
NumEnd(s, i) ==
    LET first == IF s[i] = "-" THEN i + 1 ELSE i
        after == first + DigitRun(s, first)
        frac  == IF after <= Len(s) /\ s[after] = "." THEN DigitRun(s, after + 1) ELSE 0
    IN  IF frac > 0 THEN after + frac ELSE after - 1

\* _NUM_RE.search(s): the leftmost match, as Some(matched text), or None
NumSearch(s) ==
    LET starts == {i \in 1..Len(s) : NumStartsAt(s, i)}
    IN  IF starts = {} THEN None
        ELSE LET i == CHOOSE j \in starts : \A k \in starts : j <= k
             IN  Some(SubSeq(s, i, NumEnd(s, i)))

\* float("inf"), as a number no finite value of the model reaches
Infinity == (2^30 - 1) + 2^30

\* the decimal digits of 2^1024 - 2^970, the least integer that float() rounds
\* to infinity
FloatOverflowThreshold ==
    << "1", "7", "9", "7", "6", "9", "3", "1", "3", "4", "8", "6", "2", "3", "1", "5", "8",
       "0", "7", "9", "3", "7", "2", "8", "9", "7", "1", "4", "0", "5", "3", "0", "3", "4",
       "1", "5", "0", "7", "9", "9", "3", "4", "1", "3", "2", "7", "1", "0", "0", "3", "7",
       "8", "2", "6", "9", "3", "6", "1", "7", "3", "7", "7", "8", "9", "8", "0", "4", "4",
       "4", "9", "6", "8", "2", "9", "2", "7", "6", "4", "7", "5", "0", "9", "4", "6", "6",
       "4", "9", "0", "1", "7", "9", "7", "7", "5", "8", "7", "2", "0", "7", "0", "9", "6",
       "3", "3", "0", "2", "8", "6", "4", "1", "6", "6", "9", "2", "8", "8", "7", "9", "1",
       "0", "9", "4", "6", "5", "5", "5", "5", "4", "7", "8", "5", "1", "9", "4", "0", "4",
       "0", "2", "6", "3", "0", "6", "5", "7", "4", "8", "8", "6", "7", "1", "5", "0", "5",
       "8", "2", "0", "6", "8", "1", "9", "0", "8", "9", "0", "2", "0", "0", "0", "7", "0",
       "8", "3", "8", "3", "6", "7", "6", "2", "7", "3", "8", "5", "4", "8", "4", "5", "8",
       "1", "7", "7", "1", "1", "5", "3", "1", "7", "6", "4", "4", "7", "5", "7", "3", "0",
       "2", "7", "0", "0", "6", "9", "8", "5", "5", "5", "7", "1", "3", "6", "6", "9", "5",
       "9", "6", "2", "2", "8", "4", "2", "9", "1", "4", "8", "1", "9", "8", "6", "0", "8",
       "3", "4", "9", "3", "6", "4", "7", "5", "2", "9", "2", "7", "1", "9", "0", "7", "4",
       "1", "6", "8", "4", "4", "4", "3", "6", "5", "5", "1", "0", "7", "0", "4", "3", "4",
       "2", "7", "1", "1", "5", "5", "9", "6", "9", "9", "5", "0", "8", "0", "9", "3", "0",
       "4", "2", "8", "8", "0", "1", "7", "7", "9", "0", "4", "1", "7", "4", "4", "9", "7",
       "7", "9", "2" >>

\* a run of digits without its leading zeros
RECURSIVE DropZeros(_)
DropZeros(ds) == IF ds # <<>> /\ ds[1] = "0" THEN DropZeros(Tail(ds)) ELSE ds

\* a >= b for two runs of digits of the same length
DigitsGE(a, b) ==
    \/ a = b
    \/ \E i \in 1..Len(a) :
          /\ DigitVal(a[i]) > DigitVal(b[i])
          /\ \A k \in 1..(i - 1) : a[k] = b[k]

\* float(text) overflows to infinity: the integer part of the run of digits is
\* at least 2^1024 - 2^970
FloatOverflows(whole) ==
    LET ds == DropZeros(whole)
    IN  \/ Len(ds) > Len(FloatOverflowThreshold)
        \/ Len(ds) = Len(FloatOverflowThreshold) /\ DigitsGE(ds, FloatOverflowThreshold)

\* the value of a text matched by _NUM_RE whose float is finite, in hundredths
\* (the documents of the model carry at most two fractional digits, so nothing
\* is lost)
FiniteFloatOf(t, first, n) ==
    LET whole  == DigitsVal(SubSeq(t, first, first + n - 1))
        fstart == first + n + 1
        fn     == DigitRun(t, fstart)
        d1     == IF fn >= 1 THEN DigitVal(t[fstart]) ELSE 0
        d2     == IF fn >= 2 THEN DigitVal(t[fstart + 1]) ELSE 0
    IN  100 * whole + 10 * d1 + d2

\* the magnitude of float(text) given where its digits start and how many
FloatMagnitude(t, first, n) ==
    IF FloatOverflows(SubSeq(t, first, first + n - 1)) THEN Infinity
    ELSE FiniteFloatOf(t, first, n)

\* float(text) for a text matched by _NUM_RE: hundredths, or plus or minus
\* Infinity
FloatOf(t) ==
    IF t[1] = "-" THEN 0 - FloatMagnitude(t, 2, DigitRun(t, 2))
    ELSE FloatMagnitude(t, 1, DigitRun(t, 1))

IsInf(h) == h = Infinity \/ h = 0 - Infinity

\* int(float(text)): truncation toward zero, as an integer; OverflowError for
\* an infinite float
IntOfFloat(h) ==
    IF IsInf(h)
    THEN Raise([type |-> "OverflowError", msg |-> "cannot convert float infinity to integer"])
    ELSE Return(IF h >= 0 THEN h \div 100 ELSE 0 - ((0 - h) \div 100))

\* variant of the conversion: the quotient is cut off after two decimals
KmhToMs_truncated(kmh) ==
    IF IsInf(kmh) THEN kmh
    ELSE IF kmh >= 0 THEN (2 * 5 * kmh) \div (2 * 18)
    ELSE 0 - ((2 * 5 * (0 - kmh)) \div (2 * 18))

\* round(kmh / 3.6, 2) with kmh and the result in hundredths
KmhToMs(kmh) ==
    IF IsInf(kmh) THEN kmh
    ELSE IF kmh >= 0 THEN (2 * 5 * kmh + 18) \div (2 * 18)
    ELSE 0 - ((2 * 5 * (0 - kmh) + 18) \div (2 * 18))

\* decimal digits of a natural number
RECURSIVE NatChars(_)
NatChars(n) ==
    IF n < 10 THEN <<DigitChars[n + 1]>> ELSE NatChars(n \div 10) \o <<DigitChars[(n % 10) + 1]>>

\* repr(float), as the f-string of the notes prints it: 0.2, -12.0, 1.25, inf
FormatFloat(h) ==
    LET mag  == IF h < 0 THEN 0 - h ELSE h
        frac == mag % 100
        fr   == IF frac % 10 = 0 THEN <<DigitChars[(frac \div 10) + 1]>>
                ELSE <<DigitChars[(frac \div 10) + 1], DigitChars[(frac % 10) + 1]>>
    IN  IF IsInf(h) THEN (IF h < 0 THEN <<"-">> ELSE <<>>) \o <<"i", "n", "f">>
        ELSE (IF h < 0 THEN <<"-">> ELSE <<>>) \o NatChars(mag \div 100) \o <<".">> \o fr

\* int(text) of an attribute value: surrounding white space and a sign are
\* accepted, anything but digits raises ValueError
PyInt(t) ==
    LET s      == Strip(t)
        signed == s # <<>> /\ s[1] \in {"-", "+"}
        ds     == IF signed THEN Tail(s) ELSE s
    IN  IF ds # <<>> /\ DigitRun(ds, 1) = Len(ds)
        THEN Return(IF signed /\ s[1] = "-" THEN 0 - DigitsVal(ds) ELSE DigitsVal(ds))
        ELSE Raise([type |-> "ValueError", msg |-> "invalid literal for int()"])

(***************************************************************************)
(* Dates                                                                   *)
(***************************************************************************)
DigitStrs == <<"0", "1", "2", "3", "4", "5", "6", "7", "8", "9">>

Pad2(n) == DigitStrs[(n \div 10) + 1] \o DigitStrs[(n % 10) + 1]

Pad4(n) == Pad2(n \div 100) \o Pad2(n % 100)

\* datetime.date.isoformat()
IsoFormat(d) == Pad4(d.year) \o "-" \o Pad2(d.month) \o "-" \o Pad2(d.day)

(***************************************************************************)
(* models.py                                                               *)
(***************************************************************************)
MORNING == "morning"

AFTERNOON == "afternoon"

NIGHT == "night"

Period == {MORNING, AFTERNOON, NIGHT}

\* Mountain(mountain_id, name, sources): the optional fields keep their defaults
Mountain(id, name, srcs) ==
    [mountain_id |-> id, name |-> name, region |-> None, sources |-> srcs,
     elevation |-> None, notes |-> None]

\* ForecastPeriod(...): a field not passed keeps its default None
ForecastPeriod(mountain_id, source_name, target_date, period, given) ==
    LET opt(f) == IF f \in DOMAIN given THEN given[f] ELSE None
    IN  [mountain_id |-> mountain_id, source_name |-> source_name,
         target_date |-> target_date, period |-> period,
         snowfall_cm |-> opt("snowfall_cm"), snowdepth_cm |-> opt("snowdepth_cm"),
         temp_low_c |-> opt("temp_low_c"), temp_high_c |-> opt("temp_high_c"),
         wind_speed_ms |-> opt("wind_speed_ms"), wind_gust_ms |-> opt("wind_gust_ms"),
         wind_dir |-> opt("wind_dir"), weather_desc |-> opt("weather_desc"),
         notes |-> opt("notes")]

\* ForecastDaily(...): daily_summary_json defaults to the empty dict
ForecastDaily(mountain_id, source_name, target_date, periods, summary) ==
    [mountain_id |-> mountain_id, source_name |-> source_name,
     target_date |-> target_date, periods |-> periods,
     daily_summary_json |-> summary, condition_score |-> None, confidence |-> None]

EmptyDict == [k \in {} |-> None]

(***************************************************************************)
(* The DOM the adapters read                                               *)
(*   cell  : [tag, text, date, colspan, rowspan]; text is the cell's text  *)
(*           node, date the data-date attribute, colspan the colspan       *)
(*           attribute (optional text), rowspan whether it has a rowspan   *)
(*   grid  : row name -> optional row (the first tr with that data-row)    *)
(*   hourly: the tr children of the body of table#detail_data              *)
(*   doc   : [grid |-> optional grid, hourly |-> optional hourly]          *)
(***************************************************************************)
RowNames == {"days", "time", "phrases", "weather", "wind", "snow", "rain",
             "temperature-max", "temperature-min", "temperature-chill"}

Cell(tag, text, date, colspan) ==
    [tag |-> tag, text |-> text, date |-> date, colspan |-> colspan, rowspan |-> FALSE]

Td(text) == Cell("td", text, None, None)

Th(text) == Cell("th", text, None, None)

\* table.select_one("tr[data-row='<name>']")
SelectRow(table, name) == table[name]

\* row.find_all(tags, recursive=False)
FindAll(row, tags) == SelectSeq(row, LAMBDA c : c.tag \in tags)

\* cell.get_text(strip=True), cell.get_text(" ", strip=True): one text node
GetText(cell) == Strip(cell.text)

\* `not x` on an optional text, on an optional string
FalsyText(o) == IsNone(o) \/ Get(o) = <<>>

FalsyStr(o) == IsNone(o) \/ Get(o) = ""

\* variant of the repetition: one entry whatever n is
Repeat_once(value, n) == <<value>>

\* [value] * n
Repeat(value, n) == [i \in 1..(IF n > 0 THEN n ELSE 0) |-> value]

\* labels.extend([date] * int(cell.get("colspan") or 1)) over the cells, in order;
\* the first colspan that is no integer ends the loop with ValueError
RECURSIVE ExpandCells(_, _)
ExpandCells(cells, acc) ==
    IF cells = <<>> THEN Return(acc)
    ELSE LET cell    == Head(cells)
             colspan == IF FalsyText(cell.colspan) THEN Return(1) ELSE PyInt(Get(cell.colspan))
         IN  IF Raised(colspan) THEN colspan
             ELSE ExpandCells(Tail(cells), acc \o Repeat(cell.date, colspan.value))

Min(a, b) == IF a <= b THEN a ELSE b

Take(s, n) == SubSeq(s, 1, Min(n, Len(s)))

(***************************************************************************)
(* sources/snowforecast.py                                                 *)
(***************************************************************************)
SNOWFORECAST == "snowforecast"

\* _PERIOD_MAP, in insertion order
Snow_PERIOD_MAP ==
    << <<(<<"m","o","r","n","i","n","g">>), MORNING>>,
       <<(<<"a","m">>), MORNING>>,
       <<(<<"a","f","t","e","r","n","o","o","n">>), AFTERNOON>>,
       <<(<<"p","m">>), AFTERNOON>>,
       <<(<<"n","i","g","h","t">>), NIGHT>>,
       <<(<<"e","v","e","n","i","n","g">>), NIGHT>> >>

\* _JAPANESE_PERIOD_MAP as the source file holds it: the dict literal's keys are
\* "??", "??" and "?", so the second "??" overwrites the first and the dict is
\* {"??": AFTERNOON, "?": NIGHT}, in that order
Snow_JAPANESE_PERIOD_MAP ==
    << <<(<<"?","?">>), AFTERNOON>>,
       <<(<<"?">>), NIGHT>> >>

\* dict lookup in an ordered map of <<key, value>>: Some(value) or None
MapGet(map, key) ==
    LET hits == {i \in DOMAIN map : map[i][1] = key}
    IN  IF hits = {} THEN None ELSE Some(map[CHOOSE i \in hits : TRUE][2])

\* first element of a sequence of optionals that is not None, else None
RECURSIVE FirstSome(_)
FirstSome(opts) ==
    IF opts = <<>> THEN None
    ELSE IF IsSome(Head(opts)) THEN Head(opts) ELSE FirstSome(Tail(opts))

\* re.sub(r"[^a-z ]", " ", s)
SubNonAlpha(s) == [i \in DOMAIN s |-> IF IsLowerAlpha(s[i]) \/ s[i] = " " THEN s[i] ELSE " "]

\* variant of the normalizer: the localized table is consulted before the
\* English one
Snow_normalize_period_localized_first(label) ==
    IF FalsyText(label) THEN None
    ELSE LET raw     == Get(label)
             tokens  == Split(SubNonAlpha(Lower(Strip(raw))))
             english == FirstSome([i \in DOMAIN tokens |-> MapGet(Snow_PERIOD_MAP, tokens[i])])
             jp      == FirstSome([i \in DOMAIN Snow_JAPANESE_PERIOD_MAP |->
                                      IF Contains(Snow_JAPANESE_PERIOD_MAP[i][1], raw)
                                      THEN Some(Snow_JAPANESE_PERIOD_MAP[i][2]) ELSE None])
         IN  IF IsSome(jp) THEN jp ELSE english

\* SnowForecastSource._normalize_period
Snow_normalize_period(label) ==
    IF FalsyText(label) THEN None
    ELSE LET raw     == Get(label)
             cleaned == SubNonAlpha(Lower(Strip(raw)))
             tokens  == Split(cleaned)
             english == FirstSome([i \in DOMAIN tokens |-> MapGet(Snow_PERIOD_MAP, tokens[i])])
             jp      == FirstSome([i \in DOMAIN Snow_JAPANESE_PERIOD_MAP |->
                                      IF Contains(Snow_JAPANESE_PERIOD_MAP[i][1], raw)
                                      THEN Some(Snow_JAPANESE_PERIOD_MAP[i][2]) ELSE None])
         IN  IF IsSome(english) THEN english ELSE jp

\* SnowForecastSource._row_values: the cells' texts, the first one dropped
Snow_row_values(table, row_name) ==
    LET row == SelectRow(table, row_name)
    IN  IF IsNone(row) THEN <<>>
        ELSE LET cells  == FindAll(Get(row), {"td", "th"})
                 values == [i \in DOMAIN cells |-> GetText(cells[i])]
             IN  IF values # <<>> THEN Tail(values) ELSE values

\* SnowForecastSource._value_at (index is 0-based)
Snow_value_at(values, index) ==
    IF index >= Len(values) THEN None
    ELSE LET value == Strip(values[index + 1])
         IN  IF value = <<>> THEN None ELSE Some(value)

\* SnowForecastSource._extract_float
Snow_extract_float(values, index) ==
    LET text == Snow_value_at(values, index)
    IN  IF FalsyText(text) THEN None
        ELSE LET match == NumSearch(Get(text))
             IN  IF IsNone(match) THEN None ELSE Some(FloatOf(Get(match)))

\* _WIND_COMBINED_RE = (?P<speed>\d+(?:\.\d+)?)(?P<dir>[A-Z]+)? searched in text:
\* None, or Some([speed, dir]) with dir optional
Snow_wind_search(s) ==
    LET starts == {i \in 1..Len(s) : IsDigit(s[i])}
    IN  IF starts = {} THEN None
        ELSE LET i    == CHOOSE j \in starts : \A k \in starts : j <= k
                 e    == NumEnd(s, i)
                 dlen == UpperRun(s, e + 1)
             IN  Some([speed |-> SubSeq(s, i, e),
                       dir   |-> IF dlen > 0 THEN Some(SubSeq(s, e + 1, e + dlen)) ELSE None])

\* SnowForecastSource._parse_wind: <<speed_ms, direction>>
Snow_parse_wind(values, index) ==
    LET text == Snow_value_at(values, index)
    IN  IF FalsyText(text) THEN <<None, None>>
        ELSE LET match == Snow_wind_search(Get(text))
             IN  IF IsNone(match) THEN <<None, None>>
                 ELSE <<Some(KmhToMs(FloatOf(Get(match).speed))), Get(match).dir>>

\* SnowForecastSource._build_notes
Snow_build_notes(values, index) ==
    LET text == Snow_value_at(values, index)
    IN  IF FalsyText(text) THEN None
        ELSE LET match == NumSearch(Get(text))
             IN  IF IsNone(match) THEN None
                 ELSE Some(<<"r","a","i","n","_","m","m","=">> \o Get(match))

\* one pass of the loop of _parse_table over column idx (0-based): the period
\* the column yields, as a sequence of length 0 or 1
Snow_column(table, mountain, target_date, date_sequence, periods_raw, idx) ==
    LET date_str     == date_sequence[idx + 1]
        period_label == periods_raw[idx + 1]
        period_enum  == Snow_normalize_period(Some(period_label))
        wind         == Snow_parse_wind(Snow_row_values(table, "wind"), idx)
    IN  IF FalsyStr(date_str) THEN <<>>
        ELSE IF Get(date_str) # IsoFormat(target_date) THEN <<>>
        ELSE IF IsNone(period_enum) THEN <<>>
        ELSE << ForecastPeriod(mountain.mountain_id, SNOWFORECAST, target_date,
                               Get(period_enum),
                    [snowfall_cm   |-> Snow_extract_float(Snow_row_values(table, "snow"), idx),
                     temp_high_c   |-> Snow_extract_float(Snow_row_values(table, "temperature-max"), idx),
                     temp_low_c    |-> Snow_extract_float(Snow_row_values(table, "temperature-min"), idx),
                     wind_speed_ms |-> wind[1],
                     wind_dir      |-> wind[2],
                     weather_desc  |-> Snow_value_at(Snow_row_values(table, "phrases"), idx),
                     notes         |-> Snow_build_notes(Snow_row_values(table, "rain"), idx)]) >>

RECURSIVE Snow_columns(_, _, _, _, _, _)
Snow_columns(table, mountain, target_date, date_sequence, periods_raw, idx) ==
    IF idx >= Len(date_sequence) THEN <<>>
    ELSE Snow_column(table, mountain, target_date, date_sequence, periods_raw, idx)
         \o Snow_columns(table, mountain, target_date, date_sequence, periods_raw, idx + 1)

\* date_sequence[1:] if date_sequence and date_sequence[0] is None
Snow_drop_label(date_sequence) ==
    IF Raised(date_sequence) THEN date_sequence
    ELSE IF date_sequence.value # <<>> /\ IsNone(date_sequence.value[1])
    THEN Return(Tail(date_sequence.value))
    ELSE date_sequence

\* the date_sequence _parse_table builds from the cells of the days row
Snow_date_sequence(day_row) ==
    Snow_drop_label(ExpandCells(FindAll(day_row, {"th", "td"}), <<>>))

\* SnowForecastSource._parse_table
Snow_parse_table(table, mountain, target_date) ==
    LET day_row  == SelectRow(table, "days")
        time_row == SelectRow(table, "time")
    IN  IF IsNone(day_row) \/ IsNone(time_row) THEN Return(<<>>)
        ELSE LET expanded == Snow_date_sequence(Get(day_row))
             IN  IF Raised(expanded) THEN expanded
                 ELSE LET dates   == expanded.value
                          tcells  == FindAll(Get(time_row), {"td", "th"})
                          raw     == [i \in DOMAIN tcells |-> GetText(tcells[i])]
                          length  == Min(Len(raw), Len(dates))
                      IN  Return(Snow_columns(table, mountain, target_date,
                                              Take(dates, length), Take(raw, length), 0))

\* SnowForecastSource.parse
Snow_parse(mountain, target_date, doc) ==
    IF IsSome(doc.grid) THEN Snow_parse_table(Get(doc.grid), mountain, target_date)
    ELSE Return(<<>>)

(***************************************************************************)
(* sources/mountainforecast.py: the table parser                           *)
(***************************************************************************)
MOUNTAINFORECAST == "mountainforecast"

\* _MISSING_MARKERS
Mtn_MISSING_MARKERS == {<<"?">>, <<"-">>, <<"-", "-">>, <<>>}

\* _PERIOD_MAP
Mtn_PERIOD_MAP ==
    << <<(<<"n","i","g","h","t">>), NIGHT>>,
       <<(<<"a","m">>), MORNING>>,
       <<(<<"p","m">>), AFTERNOON>> >>

\* MountainForecastSource._cell_text of a cell that exists
Mtn_cell_text(cell) ==
    LET text == Strip(Replace(GetText(cell), <<NBSP>>, <<" ">>))
    IN  IF text = <<>> \/ text \in Mtn_MISSING_MARKERS THEN None ELSE Some(text)

\* MountainForecastSource._expand_dates
Mtn_expand_dates(table) ==
    LET row == SelectRow(table, "days")
    IN  IF IsNone(row) THEN Return(<<>>)
        ELSE ExpandCells(FindAll(Get(row), {"td"}), <<>>)

\* MountainForecastSource._row_values
Mtn_row_values(table, row_name) ==
    LET row == SelectRow(table, row_name)
    IN  IF IsNone(row) THEN <<>>
        ELSE LET cells == FindAll(Get(row), {"td"})
             IN  [i \in DOMAIN cells |-> Mtn_cell_text(cells[i])]

\* MountainForecastSource._value_at (index is 0-based)
Mtn_value_at(values, index) == IF index >= Len(values) THEN None ELSE values[index + 1]

\* MountainForecastSource._parse_float
Mtn_parse_float(text) ==
    IF FalsyText(text) THEN None
    ELSE LET match == NumSearch(Get(text))
         IN  IF IsNone(match) THEN None ELSE Some(FloatOf(Get(match)))

\* the match of _WIND_RE = (?P<speed>\d+)(?:-(?P<gust>\d+))?(?P<dir>[A-Z]+)? that
\* starts at the digit at position i: n digits of speed, glen digits of gust
Mtn_wind_groups(s, i, n, glen) ==
    LET dpos == IF glen > 0 THEN i + n + 1 + glen ELSE i + n
    IN  [speed |-> SubSeq(s, i, i + n - 1),
         gust  |-> IF glen > 0 THEN Some(SubSeq(s, i + n + 1, i + n + glen)) ELSE None,
         dir   |-> IF UpperRun(s, dpos) > 0
                   THEN Some(SubSeq(s, dpos, dpos + UpperRun(s, dpos) - 1)) ELSE None]

Mtn_wind_match_at(s, i) ==
    Mtn_wind_groups(s, i, DigitRun(s, i),
        IF i + DigitRun(s, i) <= Len(s) /\ s[i + DigitRun(s, i)] = "-"
        THEN DigitRun(s, i + DigitRun(s, i) + 1) ELSE 0)

\* smallest element of a non-empty set of integers
Least(S) == CHOOSE j \in S : \A k \in S : j <= k

\* _WIND_RE.search(s): None, or Some([speed, gust, dir])
Mtn_wind_search(s) ==
    IF \A i \in 1..Len(s) : ~IsDigit(s[i]) THEN None
    ELSE Some(Mtn_wind_match_at(s, Least({i \in 1..Len(s) : IsDigit(s[i])})))

\* the tail of _parse_wind: the five results from the groups of the match
Mtn_wind_result(direction, speed_kmh, gust_kmh) ==
    << direction,
       Some(KmhToMs(speed_kmh)),
       Some(speed_kmh),
       IF IsSome(gust_kmh) THEN Some(KmhToMs(Get(gust_kmh))) ELSE None,
       gust_kmh >>

Mtn_wind_of_match(match) ==
    IF IsNone(match) THEN <<None, None, None, None, None>>
    ELSE Mtn_wind_result(Get(match).dir,
                         FloatOf(Get(match).speed),
                         IF FalsyText(Get(match).gust) THEN None
                         ELSE Some(FloatOf(Get(Get(match).gust))))

Mtn_wind_of_cleaned(cleaned_no_space) ==
    IF cleaned_no_space \in {<<>>, <<"0">>}
    THEN <<None, Some(0), Some(0), None, None>>
    ELSE Mtn_wind_of_match(Mtn_wind_search(cleaned_no_space))

\* variant of the replacements: Calm and calm are left as they are
Mtn_wind_replacements_keep_calm ==
    << <<(<<EN_DASH>>), (<<"-">>)>>,
       <<(<<"k","m","/","h">>), (<<>>)>>,
       <<(<<"K","M","/","H">>), (<<>>)>>,
       <<(<<NBSP>>), (<<>>)>>,
       <<(<<" ">>), (<<>>)>> >>

\* the replacements _parse_wind makes, in order
Mtn_wind_replacements ==
    << <<(<<EN_DASH>>), (<<"-">>)>>,
       <<(<<"k","m","/","h">>), (<<>>)>>,
       <<(<<"K","M","/","H">>), (<<>>)>>,
       <<(<<"C","a","l","m">>), (<<"0">>)>>,
       <<(<<"c","a","l","m">>), (<<"0">>)>>,
       <<(<<NBSP>>), (<<>>)>>,
       <<(<<" ">>), (<<>>)>> >>

RECURSIVE ReplaceAll(_, _)
ReplaceAll(s, pairs) ==
    IF pairs = <<>> THEN s
    ELSE ReplaceAll(Replace(s, Head(pairs)[1], Head(pairs)[2]), Tail(pairs))

\* MountainForecastSource._parse_wind:
\* <<direction, speed_ms, speed_kmh, gust_ms, gust_kmh>>
Mtn_parse_wind(text) ==
    IF FalsyText(text) THEN <<None, None, None, None, None>>
    ELSE Mtn_wind_of_cleaned(Upper(ReplaceAll(Get(text), Mtn_wind_replacements)))

\* MountainForecastSource._normalize_period
Mtn_normalize_period(label) == MapGet(Mtn_PERIOD_MAP, Lower(Strip(label)))

\* the units annotation both summaries of the adapter carry
Mtn_units ==
    [temperature_c |-> "degC", wind_speed_kmh |-> "km/h", wind_speed_ms |-> "m/s",
     rain_mm |-> "mm", snowfall_cm |-> "cm", wind_chill_c |-> "degC"]

\* the cell of a tracked row at a column, through _row_values and _value_at
Mtn_cell_at(table, row_name, index) == Mtn_value_at(Mtn_row_values(table, row_name), index)

\* phrase = _value_at(phrases) or _value_at(weather); weather_desc = phrase or None
Mtn_or(first, second) == IF FalsyText(first) THEN second ELSE first

\* the values _parse_forecast_table reads at a column (index is 0-based)
Mtn_values(table, index) ==
    [weather_desc |-> Mtn_or(Mtn_or(Mtn_cell_at(table, "phrases", index),
                                    Mtn_cell_at(table, "weather", index)), None),
     wind         |-> Mtn_parse_wind(Mtn_cell_at(table, "wind", index)),
     float        |-> [n \in {"snow", "rain", "temperature-max", "temperature-min",
                               "temperature-chill"} |->
                          Mtn_parse_float(Mtn_cell_at(table, n, index))]]

\* the summary_entry of a column
Mtn_summary_entry(date_str, time_label, v) ==
    [date |-> date_str, period_label |-> Lower(Get(time_label)),
     weather |-> v.weather_desc, wind_direction |-> v.wind[1],
     wind_speed_kmh |-> v.wind[3], wind_speed_ms |-> v.wind[2],
     wind_gust_kmh |-> v.wind[5], wind_gust_ms |-> v.wind[4],
     temperature_max_c |-> v.float["temperature-max"],
     temperature_min_c |-> v.float["temperature-min"],
     temperature_chill_c |-> v.float["temperature-chill"],
     snowfall_cm |-> v.float["snow"], rain_mm |-> v.float["rain"]]

\* ";".join(notes_parts) if notes_parts else None
JoinNotes(notes_parts) ==
    IF Len(notes_parts) = 0 THEN None
    ELSE IF Len(notes_parts) = 1 THEN Some(notes_parts[1])
    ELSE Some(notes_parts[1] \o <<";">> \o notes_parts[2])

\* variant of Mtn_notes: the wind chill entry comes first
Mtn_notes_chill_first(rain, temp_chill) ==
    JoinNotes((IF IsSome(temp_chill)
               THEN << <<"w", "i", "n", "d", "_", "c", "h", "i", "l", "l", "_", "c", "=">> \o FormatFloat(Get(temp_chill)) >>
               ELSE <<>>)
              \o
              (IF IsSome(rain)
               THEN << <<"r", "a", "i", "n", "_", "m", "m", "=">> \o FormatFloat(Get(rain)) >>
               ELSE <<>>))

\* the notes of a period: rain_mm=<rain> and wind_chill_c=<chill>, each when present
Mtn_notes(rain, temp_chill) ==
    JoinNotes((IF IsSome(rain)
               THEN << <<"r","a","i","n","_","m","m","=">> \o FormatFloat(Get(rain)) >>
               ELSE <<>>)
              \o
              (IF IsSome(temp_chill)
               THEN << <<"w","i","n","d","_","c","h","i","l","l","_","c","=">>
                       \o FormatFloat(Get(temp_chill)) >>
               ELSE <<>>))

\* variant of Mtn_period: the period is labelled with another adapter's name
Mtn_period_other_source(mountain, target_date, part, v) ==
    ForecastPeriod(mountain.mountain_id, SNOWFORECAST, target_date, part,
        [snowfall_cm |-> v.float["snow"], temp_high_c |-> v.float["temperature-max"],
         temp_low_c |-> v.float["temperature-min"],
         wind_speed_ms |-> v.wind[2], wind_gust_ms |-> v.wind[4], wind_dir |-> v.wind[1],
         weather_desc |-> v.weather_desc,
         notes |-> Mtn_notes(v.float["rain"], v.float["temperature-chill"])])

\* the ForecastPeriod of a column dated the target date
Mtn_period(mountain, target_date, part, v) ==
    ForecastPeriod(mountain.mountain_id, MOUNTAINFORECAST, target_date, part,
        [snowfall_cm |-> v.float["snow"], temp_high_c |-> v.float["temperature-max"],
         temp_low_c |-> v.float["temperature-min"],
         wind_speed_ms |-> v.wind[2], wind_gust_ms |-> v.wind[4], wind_dir |-> v.wind[1],
         weather_desc |-> v.weather_desc,
         notes |-> Mtn_notes(v.float["rain"], v.float["temperature-chill"])])

\* variant of Mtn_emit: a column of another date adds no summary entry
Mtn_emit_target_only(mountain, target_date, date_str, time_label, part, v) ==
    IF Get(date_str) # IsoFormat(target_date)
    THEN [summary |-> <<>>, periods |-> <<>>]
    ELSE [summary |-> <<Mtn_summary_entry(date_str, time_label, v)>>,
          periods |-> <<Mtn_period(mountain, target_date, part, v)>>]

\* a column whose date and label are set and whose label is the period `part`
Mtn_emit(mountain, target_date, date_str, time_label, part, v) ==
    IF Get(date_str) # IsoFormat(target_date)
    THEN [summary |-> <<Mtn_summary_entry(date_str, time_label, v)>>, periods |-> <<>>]
    ELSE [summary |-> <<Mtn_summary_entry(date_str, time_label, v)>>,
          periods |-> <<Mtn_period(mountain, target_date, part, v)>>]

\* one pass of the loop of _parse_forecast_table over column index (0-based):
\* the summary entries and the periods the column adds (each 0 or 1)
Mtn_column(table, mountain, target_date, date_str, time_label, index) ==
    IF FalsyStr(date_str) \/ FalsyText(time_label) THEN [summary |-> <<>>, periods |-> <<>>]
    ELSE IF IsNone(Mtn_normalize_period(Get(time_label)))
         THEN [summary |-> <<>>, periods |-> <<>>]
    ELSE Mtn_emit(mountain, target_date, date_str, time_label,
                  Get(Mtn_normalize_period(Get(time_label))), Mtn_values(table, index))

\* what two runs of columns add, one after the other
Mtn_both(this, rest) ==
    [summary |-> this.summary \o rest.summary, periods |-> this.periods \o rest.periods]

RECURSIVE Mtn_columns(_, _, _, _, _, _)
Mtn_columns(table, mountain, target_date, date_labels, time_labels, index) ==
    IF index >= Len(date_labels) THEN [summary |-> <<>>, periods |-> <<>>]
    ELSE Mtn_both(Mtn_column(table, mountain, target_date, date_labels[index + 1],
                             time_labels[index + 1], index),
                  Mtn_columns(table, mountain, target_date, date_labels, time_labels, index + 1))

\* the rest of _parse_forecast_table once the two label rows are read
Mtn_table_columns(table, mountain, target_date, date_labels, time_labels) ==
    IF date_labels = <<>> \/ time_labels = <<>>
    THEN [periods |-> <<>>, summary |-> <<>>]
    ELSE Mtn_columns(table, mountain, target_date,
                     Take(date_labels, Min(Len(date_labels), Len(time_labels))),
                     Take(time_labels, Min(Len(date_labels), Len(time_labels))), 0)

Mtn_parse_table(table, mountain, target_date, expanded) ==
    IF Raised(expanded) THEN expanded
    ELSE Return(Mtn_table_columns(table, mountain, target_date, expanded.value,
                                  Mtn_row_values(table, "time")))

\* MountainForecastSource._parse_forecast_table: Return([periods, summary]) or the
\* ValueError of _expand_dates
Mtn_parse_forecast_table(doc, mountain, target_date) ==
    IF IsNone(doc.grid) THEN Return([periods |-> <<>>, summary |-> <<>>])
    ELSE Mtn_parse_table(Get(doc.grid), mountain, target_date, Mtn_expand_dates(Get(doc.grid)))

\* MountainForecastSource.parse
Mtn_parse(mountain, target_date, doc) ==
    LET parsed == Mtn_parse_forecast_table(doc, mountain, target_date)
    IN  IF Raised(parsed) THEN parsed ELSE Return(parsed.value.periods)

\* variant of _fallback_daily: the placeholder periods leave the gust unset and
\* the summary does not list the URL
Mtn_fallback_daily_sparse(mountain, target_date, fetched_at, source_urls, reason) ==
    ForecastDaily(mountain.mountain_id, MOUNTAINFORECAST, target_date,
        [i \in 1..3 |->
            ForecastPeriod(mountain.mountain_id, MOUNTAINFORECAST, target_date,
                <<NIGHT, MORNING, AFTERNOON>>[i],
                [snowfall_cm |-> Some(0), snowdepth_cm |-> Some(0), temp_low_c |-> Some(0),
                 temp_high_c |-> Some(0), wind_speed_ms |-> Some(0),
                 wind_dir |-> Some(<<"-">>), weather_desc |-> Some(<<"-">>),
                 notes |-> Some(<<"-">>)])],
        [status |-> "fallback", reason |-> reason, source_urls |-> <<>>,
         fetched_at |-> fetched_at, columns |-> [i \in 1..3 |-> [rain_mm |-> Some(0)]],
         units |-> Mtn_units])

\* MountainForecastSource._fallback_daily
Mtn_fallback_daily(mountain, target_date, fetched_at, source_urls, reason) ==
    LET target_iso == IsoFormat(target_date)
        slots == << <<NIGHT, <<"n","i","g","h","t">> >>,
                    <<MORNING, <<"a","m">> >>,
                    <<AFTERNOON, <<"p","m">> >> >>
        placeholder(i) ==
            ForecastPeriod(mountain.mountain_id, MOUNTAINFORECAST, target_date, slots[i][1],
                [snowfall_cm |-> Some(0), snowdepth_cm |-> Some(0), temp_low_c |-> Some(0),
                 temp_high_c |-> Some(0), wind_speed_ms |-> Some(0), wind_gust_ms |-> Some(0),
                 wind_dir |-> Some(<<"-">>), weather_desc |-> Some(<<"-">>),
                 notes |-> Some(<<"-">>)])
        column(i) ==
            [date |-> Some(target_iso), period_label |-> slots[i][2],
             weather |-> Some(<<"-">>), wind_direction |-> Some(<<"-">>),
             wind_speed_kmh |-> Some(0), wind_speed_ms |-> Some(0),
             wind_gust_kmh |-> Some(0), wind_gust_ms |-> Some(0),
             temperature_max_c |-> Some(0), temperature_min_c |-> Some(0),
             temperature_chill_c |-> Some(0), snowfall_cm |-> Some(0), rain_mm |-> Some(0)]
    IN  ForecastDaily(mountain.mountain_id, MOUNTAINFORECAST, target_date,
            [i \in 1..3 |-> placeholder(i)],
            [status |-> "fallback", reason |-> reason, source_urls |-> source_urls,
             fetched_at |-> fetched_at, columns |-> [i \in 1..3 |-> column(i)],
             units |-> Mtn_units])

(***************************************************************************)
(* sources/base.py: retrieval and the offline-sample policy                *)
(*   url : [scheme, netloc, path, abs]  (urlparse; abs: the path is        *)
(*         absolute)                                                       *)
(*   env : [flag        |-> optional value of BACKCOUNTRY_OFFLINE,         *)
(*          sample_dir  |-> optional [abs, name] of                        *)
(*                          BACKCOUNTRY_OFFLINE_SAMPLE_DIR,                *)
(*          live        |-> what session.get + raise_for_status does:      *)
(*                          Return(document) or Raise(RequestException),   *)
(*          fs          |-> the files that exist: path -> document,        *)
(*          now         |-> the clock]                                     *)
(* An operation that does I/O yields [res |-> result, io |-> the I/O it    *)
(* did, in order].                                                         *)
(***************************************************************************)
PROJECT_ROOT == "/project"

CWD == "/cwd"

Url(scheme, netloc, path, abs) == [scheme |-> scheme, netloc |-> netloc, path |-> path, abs |-> abs]

\* the URL as the string it was configured as
UrlStr(url) ==
    (IF url.scheme = "" THEN "" ELSE url.scheme \o "://") \o url.netloc \o url.path

\* the requests exception classes
RequestExceptions == {"RequestException", "HTTPError", "ConnectionError", "Timeout"}

IsRequestException(exc) == exc.type \in RequestExceptions

\* variant of _is_local_url: only the file scheme is local
is_local_url_file_only(url) == url.scheme = "file"

\* BaseSource._is_local_url
is_local_url(url) == url.scheme \in {"", "file"}

\* BaseSource._resolve_local_path
resolve_local_path(url) ==
    LET path_str == IF url.scheme = "file"
                    THEN (IF url.netloc \notin {"", "localhost"}
                          THEN "//" \o url.netloc \o url.path ELSE url.path)
                    ELSE UrlStr(url)
        absolute == IF url.scheme = "file" THEN (url.abs \/ url.netloc \notin {"", "localhost"})
                    ELSE url.abs
    IN  IF absolute THEN path_str
        ELSE IF path_str = "" THEN CWD
        ELSE CWD \o "/" \o path_str

\* BaseSource._load_local_text: read_bytes raises when the path is the working
\* directory and when the file does not exist
load_local_text(env, path) ==
    [res |-> IF path = CWD THEN Raise([type |-> "IsADirectoryError", msg |-> path])
             ELSE IF path \in DOMAIN env.fs THEN Return(env.fs[path])
             ELSE Raise([type |-> "FileNotFoundError", msg |-> path]),
     io  |-> << <<"read", path>> >>]

\* fetch_text of the three adapters (the overrides differ in the response
\* encoding only)
fetch_text(env, url) ==
    IF is_local_url(url) THEN load_local_text(env, resolve_local_path(url))
    ELSE [res |-> env.live, io |-> << <<"GET", UrlStr(url)>> >>]

\* variant of _offline_sample_path: the file name leaves the date out
offline_sample_path_undated(env, source_name, target_date) ==
    IF FalsyStr(env.flag) THEN None
    ELSE LET dir  == IF IsNone(env.sample_dir) THEN [abs |-> FALSE, name |-> "local_samples"]
                     ELSE Get(env.sample_dir)
             path == IF dir.abs THEN dir.name ELSE PROJECT_ROOT \o "/" \o dir.name
         IN  Some(path \o "/" \o source_name \o ".html")

\* variant of the except clause of _fetch_with_fallback: with the sample absent
\* the original error is raised again
sample_or_reraise(env, url, live, io, fallback_path) ==
    IF IsNone(fallback_path) THEN [res |-> live.res, io |-> io]
    ELSE IF Get(fallback_path) \in DOMAIN env.fs
    THEN [res |-> load_local_text(env, Get(fallback_path)).res,
          io  |-> io \o << <<"exists", Get(fallback_path)>> >>
                     \o load_local_text(env, Get(fallback_path)).io]
    ELSE [res |-> live.res, io |-> io \o << <<"exists", Get(fallback_path)>> >>]

\* variant of _offline_sample_path: the value of the flag is read as a number,
\* "0" leaves offline mode off
offline_sample_path_zero_off(env, source_name, target_date) ==
    IF FalsyStr(env.flag) \/ env.flag = Some("0") THEN None
    ELSE LET dir  == IF IsNone(env.sample_dir) THEN [abs |-> FALSE, name |-> "local_samples"]
                     ELSE Get(env.sample_dir)
             path == IF dir.abs THEN dir.name ELSE PROJECT_ROOT \o "/" \o dir.name
         IN  Some(path \o "/" \o source_name \o "_" \o IsoFormat(target_date) \o ".html")

\* BaseSource._offline_sample_path: None, or Some(path)
offline_sample_path(env, source_name, target_date) ==
    IF FalsyStr(env.flag) THEN None
    ELSE LET dir  == IF IsNone(env.sample_dir) THEN [abs |-> FALSE, name |-> "local_samples"]
                     ELSE Get(env.sample_dir)
             path == IF dir.abs THEN dir.name ELSE PROJECT_ROOT \o "/" \o dir.name
         IN  Some(path \o "/" \o source_name \o "_" \o IsoFormat(target_date) \o ".html")

\* the except clause of _fetch_with_fallback: `live` raised a RequestException
\* after doing the I/O `io`, and fallback_path is what _offline_sample_path gave
sample_or_raise(env, url, live, io, fallback_path) ==
    IF IsNone(fallback_path) THEN [res |-> live.res, io |-> io]
    ELSE IF Get(fallback_path) \in DOMAIN env.fs
    THEN [res |-> load_local_text(env, Get(fallback_path)).res,
          io  |-> io \o << <<"exists", Get(fallback_path)>> >>
                     \o load_local_text(env, Get(fallback_path)).io]
    ELSE [res |-> Raise([type  |-> "RuntimeError",
                         url   |-> UrlStr(url),
                         path  |-> Get(fallback_path),
                         cause |-> live.res.exc]),
          io  |-> io \o << <<"exists", Get(fallback_path)>> >>]

\* the try statement of _fetch_with_fallback around the live fetch `live`
try_live(env, source_name, url, target_date, live) ==
    IF Returned(live.res) \/ ~IsRequestException(live.res.exc) THEN live
    ELSE sample_or_raise(env, url, live,
                         live.io \o << <<"getenv", "BACKCOUNTRY_OFFLINE">> >>,
                         offline_sample_path(env, source_name, target_date))

\* BaseSource._fetch_with_fallback
fetch_with_fallback(env, source_name, url, target_date) ==
    IF is_local_url(url) THEN load_local_text(env, resolve_local_path(url))
    ELSE try_live(env, source_name, url, target_date, fetch_text(env, url))

\* variant of build_requests: only a missing key is an error, an empty URL is
\* returned as it is
build_requests_unchecked(source_name, mountain) ==
    IF source_name \notin DOMAIN mountain.sources
    THEN Raise([type |-> "ValueError", msg |-> source_name, mountain_id |-> mountain.mountain_id])
    ELSE Return(<<mountain.sources[source_name]>>)

\* build_requests of the three adapters: Return(<<url>>) or ValueError
build_requests(source_name, mountain) ==
    IF source_name \notin DOMAIN mountain.sources \/ UrlStr(mountain.sources[source_name]) = ""
    THEN Raise([type |-> "ValueError", msg |-> source_name, mountain_id |-> mountain.mountain_id])
    ELSE Return(<<mountain.sources[source_name]>>)

(***************************************************************************)
(* sources/powdersearch.py                                                 *)
(***************************************************************************)
POWDERSEARCH == "powdersearch"

\* _MISSING_MARKERS
Powder_MISSING_MARKERS == {<<"/">>, <<"-">>, <<"-", "-">>}

\* PowderSearchSource._cell_text of a cell that exists
Powder_cell_text(cell) == Strip(Replace(GetText(cell), <<IDEOGRAPHIC_SPACE>>, <<" ">>))

\* PowderSearchSource._parse_float_value
Powder_parse_float_value(text) ==
    LET match == NumSearch(text)
    IN  IF IsNone(match) THEN None ELSE Some(FloatOf(Get(match)))

\* PowderSearchSource._extract_int of a cell that exists: Return(None),
\* Return(Some(n)), or the OverflowError that `except ValueError` lets through
Powder_extract_int(cell) ==
    IF IsNone(NumSearch(Powder_cell_text(cell))) THEN Return(None)
    ELSE IF Raised(IntOfFloat(FloatOf(Get(NumSearch(Powder_cell_text(cell))))))
    THEN IntOfFloat(FloatOf(Get(NumSearch(Powder_cell_text(cell)))))
    ELSE Return(Some(IntOfFloat(FloatOf(Get(NumSearch(Powder_cell_text(cell))))).value))

\* PowderSearchSource._extract_float (index is 0-based)
Powder_extract_float(cells, index) ==
    IF index >= Len(cells) THEN None
    ELSE LET text == Powder_cell_text(cells[index + 1])
         IN  IF text = <<>> \/ text \in Powder_MISSING_MARKERS THEN None
             ELSE Powder_parse_float_value(text)

\* position of the first "/" of a text that holds one
FirstSlash(text) == CHOOSE i \in 1..Len(text) : text[i] = "/" /\ \A k \in 1..(i - 1) : text[k] # "/"

\* PowderSearchSource._parse_wind: <<direction, speed>>
Powder_parse_wind(cells, index) ==
    IF index >= Len(cells) THEN <<None, None>>
    ELSE LET text == Powder_cell_text(cells[index + 1])
         IN  IF text = <<>> \/ text \in Powder_MISSING_MARKERS THEN <<None, None>>
             ELSE IF Contains(<<"/">>, text)
             THEN LET at             == FirstSlash(text)
                      direction_part == Strip(SubSeq(text, 1, at - 1))
                      speed_part     == SubSeq(text, at + 1, Len(text))
                  IN  << IF direction_part = <<>> THEN None ELSE Some(direction_part),
                         Powder_parse_float_value(speed_part) >>
             ELSE << IF Strip(text) = <<>> THEN None ELSE Some(Strip(text)), None >>

\* the entry of a row of the target day whose hour is hour_value
Powder_entry(cells, hour_value) ==
    [hour             |-> hour_value,
     temperature_c    |-> Powder_extract_float(cells, 1),
     precipitation_mm |-> Powder_extract_float(cells, 2),
     wind_direction   |-> Powder_parse_wind(cells, 3)[1],
     wind_speed_ms    |-> Powder_parse_wind(cells, 3)[2],
     sunshine_hours   |-> Powder_extract_float(cells, 4),
     snow_depth_cm    |-> Powder_extract_float(cells, 5),
     snowfall_cm      |-> Powder_extract_float(cells, 6)]

\* hours.append(entry) before the rows that follow: the entries of both, or the
\* error the rows that follow raise
Powder_prepend(entry, rest) ==
    IF Raised(rest) THEN rest ELSE Return(<<entry>> \o rest.value)

\* the loop of _parse_hourly_table over the rows still to read, current_day
\* carried from row to row: Return(hours), or the error of _extract_int
RECURSIVE Powder_rows(_, _, _)
RECURSIVE Powder_row_of_day(_, _, _, _)
RECURSIVE Powder_row_with_hour(_, _, _, _, _)

\* variant of Powder_row_of_day: a row of another day is read like one of the
\* target day
Powder_row_of_any_day(rows, target_day, day, cells) ==
    IF Raised(day) THEN day
    ELSE IF IsNone(day.value)
    THEN Powder_rows(Tail(rows), target_day, day.value)
    ELSE IF cells = <<>> THEN Powder_rows(Tail(rows), target_day, day.value)
    ELSE Powder_row_with_hour(rows, target_day, day.value, cells, Powder_extract_int(cells[1]))

\* a data row once the day cell is read: `day` is current_day as a result
Powder_row_of_day(rows, target_day, day, cells) ==
    IF Raised(day) THEN day
    ELSE IF IsNone(day.value) \/ day.value # Some(target_day)
    THEN Powder_rows(Tail(rows), target_day, day.value)
    ELSE IF cells = <<>> THEN Powder_rows(Tail(rows), target_day, day.value)
    ELSE Powder_row_with_hour(rows, target_day, day.value, cells, Powder_extract_int(cells[1]))

\* a data row of the target day once the hour cell is read
Powder_row_with_hour(rows, target_day, day, cells, hour_value) ==
    IF Raised(hour_value) THEN hour_value
    ELSE IF IsNone(hour_value.value) THEN Powder_rows(Tail(rows), target_day, day)
    ELSE Powder_prepend(Powder_entry(cells, Get(hour_value.value)),
                        Powder_rows(Tail(rows), target_day, day))

Powder_rows(rows, target_day, current_day) ==
    IF rows = <<>> THEN Return(<<>>)
    ELSE IF FindAll(Head(rows), {"td", "th"}) = <<>>
    THEN Powder_rows(Tail(rows), target_day, current_day)
    ELSE IF FindAll(Head(rows), {"td", "th"})[1].tag = "th"
    THEN Powder_rows(Tail(rows), target_day, current_day)
    ELSE IF Len(FindAll(Head(rows), {"td", "th"})) = 1
            /\ IsSome(FindAll(Head(rows), {"td", "th"})[1].colspan)
    THEN Powder_rows(Tail(rows), target_day, current_day)
    ELSE IF FindAll(Head(rows), {"td", "th"})[1].rowspan
    THEN Powder_row_of_day(rows, target_day,
                           Powder_extract_int(FindAll(Head(rows), {"td", "th"})[1]),
                           Tail(FindAll(Head(rows), {"td", "th"})))
    ELSE Powder_row_of_day(rows, target_day, Return(current_day),
                           FindAll(Head(rows), {"td", "th"}))

\* PowderSearchSource._parse_hourly_table
Powder_parse_hourly_table(doc, target_date) ==
    IF IsNone(doc.hourly) THEN Return(<<>>)
    ELSE Powder_rows(Get(doc.hourly), target_date.day, None)

\* PowderSearchSource.parse
Powder_parse(mountain, target_date, doc) == Return(<<>>)

\* list.sort(key=lambda item: int(item["hour"])): a stable sort
RECURSIVE InsertByHour(_, _)
InsertByHour(sorted, item) ==
    IF sorted = <<>> THEN <<item>>
    ELSE IF sorted[Len(sorted)].hour <= item.hour THEN Append(sorted, item)
    ELSE Append(InsertByHour(SubSeq(sorted, 1, Len(sorted) - 1), item), sorted[Len(sorted)])

\* variant of the sort: the entries stay in document order
SortByHour_unsorted(items) == items

RECURSIVE SortByHour(_)
SortByHour(items) ==
    IF items = <<>> THEN <<>>
    ELSE InsertByHour(SortByHour(SubSeq(items, 1, Len(items) - 1)), items[Len(items)])

Powder_units ==
    [temperature_c |-> "degC", precipitation_mm |-> "mm", wind_speed_ms |-> "m/s",
     sunshine_hours |-> "hours", snow_depth_cm |-> "cm", snowfall_cm |-> "cm"]

(***************************************************************************)
(* collect of the three adapters.  build_requests yields one URL, so the   *)
(* loop over the URLs runs its body once.                                  *)
(***************************************************************************)
\* the rest of BaseSource.collect once the text is fetched
Snow_daily(mountain, target_date, io, parsed) ==
    IF Raised(parsed) THEN [res |-> parsed, io |-> io]
    ELSE [res |-> Return(ForecastDaily(mountain.mountain_id, SNOWFORECAST, target_date,
                                       parsed.value, EmptyDict)),
          io  |-> io]

Snow_fetched(mountain, target_date, fetched) ==
    IF Raised(fetched.res) THEN fetched
    ELSE Snow_daily(mountain, target_date, fetched.io,
                    Snow_parse(mountain, target_date, fetched.res.value))

Snow_requests(env, mountain, target_date, urls) ==
    IF Raised(urls) THEN [res |-> urls, io |-> <<>>]
    ELSE Snow_fetched(mountain, target_date,
                      fetch_with_fallback(env, SNOWFORECAST, urls.value[1], target_date))

\* BaseSource.collect, which SnowForecastSource inherits
Snow_collect(env, mountain, target_date) ==
    Snow_requests(env, mountain, target_date, build_requests(SNOWFORECAST, mountain))

\* the except clause of MountainForecastSource.collect: which errors of
\* _fetch_with_fallback become the placeholder record
Mtn_caught(exc) == IsRequestException(exc)

\* the rest of MountainForecastSource.collect once the text is fetched
Mtn_daily(env, mountain, target_date, url, io, parsed) ==
    IF Raised(parsed) THEN [res |-> parsed, io |-> io]
    ELSE [res |-> Return(ForecastDaily(mountain.mountain_id, MOUNTAINFORECAST, target_date,
                             parsed.value.periods,
                             [columns |-> parsed.value.summary,
                              source_urls |-> <<UrlStr(url)>>,
                              fetched_at |-> env.now,
                              units |-> Mtn_units])),
          io  |-> io]

Mtn_fetched(env, mountain, target_date, url, fetched) ==
    IF Raised(fetched.res)
    THEN IF Mtn_caught(fetched.res.exc)
         THEN [res |-> Return(Mtn_fallback_daily(mountain, target_date, env.now,
                                                 <<UrlStr(url)>>, fetched.res.exc.msg)),
               io  |-> fetched.io]
         ELSE fetched
    ELSE Mtn_daily(env, mountain, target_date, url, fetched.io,
                   Mtn_parse_forecast_table(fetched.res.value, mountain, target_date))

Mtn_requests(env, mountain, target_date, urls) ==
    IF Raised(urls) THEN [res |-> urls, io |-> <<>>]
    ELSE Mtn_fetched(env, mountain, target_date, urls.value[1],
                     fetch_with_fallback(env, MOUNTAINFORECAST, urls.value[1], target_date))

\* MountainForecastSource.collect
Mtn_collect(env, mountain, target_date) ==
    Mtn_requests(env, mountain, target_date, build_requests(MOUNTAINFORECAST, mountain))

\* the rest of PowderSearchSource.collect once the text is parsed
Powder_daily(env, mountain, target_date, url, io, hourly_entries) ==
    IF Raised(hourly_entries) THEN [res |-> hourly_entries, io |-> io]
    ELSE [res |-> Return(ForecastDaily(mountain.mountain_id, POWDERSEARCH, target_date, <<>>,
                             [hours |-> SortByHour(hourly_entries.value),
                              source_urls |-> <<UrlStr(url)>>,
                              fetched_at |-> env.now,
                              units |-> Powder_units])),
          io  |-> io]

\* the rest of PowderSearchSource.collect once the text is fetched
Powder_fetched(env, mountain, target_date, url, fetched) ==
    IF Raised(fetched.res) THEN fetched
    ELSE Powder_daily(env, mountain, target_date, url, fetched.io,
                      Powder_parse_hourly_table(fetched.res.value, target_date))

Powder_requests(env, mountain, target_date, urls) ==
    IF Raised(urls) THEN [res |-> urls, io |-> <<>>]
    ELSE Powder_fetched(env, mountain, target_date, urls.value[1],
                        fetch_with_fallback(env, POWDERSEARCH, urls.value[1], target_date))

\* PowderSearchSource.collect
Powder_collect(env, mountain, target_date) ==
    Powder_requests(env, mountain, target_date, build_requests(POWDERSEARCH, mountain))

\* the adapters, by source_name
Adapters == {SNOWFORECAST, MOUNTAINFORECAST, POWDERSEARCH}

\* source.collect(mountain, target_date) of the adapter named source_name
Collect(source_name, env, mountain, target_date) ==
    IF source_name = SNOWFORECAST THEN Snow_collect(env, mountain, target_date)
    ELSE IF source_name = MOUNTAINFORECAST THEN Mtn_collect(env, mountain, target_date)
    ELSE Powder_collect(env, mountain, target_date)

(***************************************************************************)
(* Bounded inputs                                                          *)
(***************************************************************************)
\* longest days row, time row and hourly table the parsers are given
MaxDayCells == 2

MaxTimeCells == 2

MaxHourRows == 3

\* all sequences over S of length at most n
RECURSIVE SeqsUpTo(_, _)
SeqsUpTo(S, n) ==
    IF n = 0 THEN {<<>>}
    ELSE LET shorter == SeqsUpTo(S, n - 1)
         IN  shorter \cup {Append(s, x) : s \in {t \in shorter : Len(t) = n - 1}, x \in S}

Date1 == [year |-> 2025, month |-> 6, day |-> 2]

Date2 == [year |-> 2025, month |-> 6, day |-> 3]

Dates == {Date1, Date2}

\* cells of a days row: a row label without a date, dated cells, cells spanning
\* two, zero and a non-numeric number of columns
DayCells ==
    { Th(<<"D","a","y","s">>),
      Cell("td", <<>>, Some(IsoFormat(Date1)), None),
      Cell("td", <<>>, Some(IsoFormat(Date2)), None),
      Cell("td", <<>>, Some(IsoFormat(Date1)), Some(<<"2">>)),
      Cell("td", <<>>, Some(IsoFormat(Date1)), Some(<<"0">>)),
      Cell("td", <<>>, Some(IsoFormat(Date1)), Some(<<"x">>)) }

\* cells of a time row
TimeCells ==
    { Th(<<"T","i","m","e">>),
      Td(<<"n","i","g","h","t">>),
      Td(<<"A","M">>),
      Td(<<" ","P","M">>) }

OptRows(cells, n) == {None} \cup {Some(r) : r \in SeqsUpTo(cells, n)}

\* the tracked data rows of a table: absent, or three columns after a label,
\* holding numbers, missing-value markers and ragged ends
NoData == [n \in RowNames \ {"days", "time"} |-> None]

SomeData ==
    [n \in RowNames \ {"days", "time"} |->
        IF n = "phrases" THEN Some(<<Th(<<"x">>), Td(<<"c","l","e","a","r">>), Td(<<"-">>), Td(<<"s","n","o","w">>)>>)
        ELSE IF n = "weather" THEN Some(<<Td(<<"s","u","n">>), Td(<<"f","o","g">>)>>)
        ELSE IF n = "wind" THEN Some(<<Td(<<"2","0","-","3","0","N","W">>), Td(<<"C","a","l","m">>), Td(<<"1","5","N">>)>>)
        ELSE IF n = "snow" THEN Some(<<Td(<<"-">>), Td(<<"0",".","5">>), Td(<<"1">>)>>)
        ELSE IF n = "rain" THEN Some(<<Td(<<"0",".","2">>), Td(<<>>), Td(<<"?">>)>>)
        ELSE IF n = "temperature-max" THEN Some(<<Td(<<"-","5">>), Td(<<"-","3">>)>>)
        ELSE IF n = "temperature-min" THEN Some(<<Td(<<"-","8">>)>>)
        ELSE None]

DataSets == {NoData, SomeData}

GridTable(days, time, data) ==
    [n \in RowNames |-> IF n = "days" THEN days ELSE IF n = "time" THEN time ELSE data[n]]

GridDoc(days, time, data) == [grid |-> Some(GridTable(days, time, data)), hourly |-> None]

NoTableDoc == [grid |-> None, hourly |-> None]

GridDocs ==
    { GridDoc(days, time, data) :
        days \in OptRows(DayCells, MaxDayCells),
        time \in OptRows(TimeCells, MaxTimeCells),
        data \in DataSets }

\* the number of columns of the provider's sample page (night, AM, PM of one day)
FixtureColumns == 3

\* cells of a time row as wide as the sample page: the cells above, a label
\* that names no period and a missing-value marker
LabelCells == TimeCells \cup { Td(<<"n","o","o","n">>), Td(<<"-">>) }

\* days rows of that width: one cell spanning all columns, and a row label
\* followed by a cell spanning all columns but one and a cell of the next day
WideDayRows ==
    { << Cell("td", <<>>, Some(IsoFormat(Date1)), Some(NatChars(FixtureColumns))) >>,
      << Th(<<"D","a","y","s">>),
         Cell("td", <<>>, Some(IsoFormat(Date1)), Some(NatChars(FixtureColumns - 1))),
         Cell("td", <<>>, Some(IsoFormat(Date2)), None) >> }

WideDocs ==
    { GridDoc(Some(days), Some(time), SomeData) :
        days \in WideDayRows, time \in [1..FixtureColumns -> LabelCells] }

\* a cell of the hourly table that opens a day group
DayCell(text) == [Td(text) EXCEPT !.rowspan = TRUE]

\* rows of the hourly table: a header row, a row of one spanning cell, rows
\* that open day 2 and day 3, rows that continue the group, one without an
\* hour, and a row that opens a group whose day cell holds no number
HourRows ==
    { <<Th(<<"d","a","y">>), Th(<<"h","o","u","r">>)>>,
      <<Cell("td", <<"n","o","t","e">>, None, Some(<<"8">>))>>,
      <<DayCell(<<"2">>), Td(<<"2","1">>), Td(<<"-","3",".","5">>), Td(<<"0">>),
        Td(<<"N","W","/","5">>), Td(<<"-">>), Td(<<"1","2","0">>), Td(<<"/">>)>>,
      <<DayCell(<<"3">>), Td(<<"0">>), Td(<<"1">>)>>,
      <<Td(<<"9">>), Td(<<"2">>), Td(<<"-","-">>), Td(<<"S">>)>>,
      <<Td(<<"-">>), Td(<<"4">>)>>,
      <<DayCell(<<"x">>), Td(<<"7">>)>> }

HourlyDoc(rows) == [grid |-> None, hourly |-> Some(rows)]

HourlyDocs == {HourlyDoc(rows) : rows \in SeqsUpTo(HourRows, MaxHourRows)}

\* the documents the parsers are given
Docs == {NoTableDoc} \cup GridDocs \cup WideDocs \cup HourlyDocs

Hakuba ==
    Mountain("hakuba", "Hakuba",
        [s \in Adapters |-> Url("https", "example.com", "/" \o s, TRUE)])

(***************************************************************************)
(* Specification SpecParse: one parser applied to one document             *)
(***************************************************************************)
PipelineIdle ==
    /\ targetDate = Date1
    /\ mountains = <<>>
    /\ sources = <<>>
    /\ pc = "idle"
    /\ mi = 0
    /\ si = 0
    /\ daily = None
    /\ results = <<>>
    /\ folder = EmptyDict
    /\ events = <<>>
    /\ outcome = None

CallIdle == cin = None /\ cout = None /\ calls = <<>>

ParseIdle == pin = None /\ pout = None

InitParse ==
    /\ PipelineIdle
    /\ CallIdle
    /\ \E doc \in Docs :
          pin = Some([doc |-> doc, target_date |-> Date1, mountain |-> Hakuba])
    /\ pout = None

\* SnowForecastSource.parse(mountain, target_date, fetched_at, text, url=url)
ParseSnow ==
    /\ IsSome(pin) /\ IsNone(pout)
    /\ pout' = Some([parser |-> SNOWFORECAST,
                     res    |-> Snow_parse(Get(pin).mountain, Get(pin).target_date, Get(pin).doc),
                     aux    |-> Return(<<>>)])
    /\ UNCHANGED <<pipelineVars, cin, cout, pin, calls>>

\* MountainForecastSource.parse, and the summary columns _parse_forecast_table
\* returns with the periods
ParseMtn ==
    /\ IsSome(pin) /\ IsNone(pout)
    /\ LET table == Mtn_parse_forecast_table(Get(pin).doc, Get(pin).mountain, Get(pin).target_date)
       IN  pout' = Some([parser |-> MOUNTAINFORECAST,
                         res    |-> Mtn_parse(Get(pin).mountain, Get(pin).target_date, Get(pin).doc),
                         aux    |-> IF Raised(table) THEN table ELSE Return(table.value.summary)])
    /\ UNCHANGED <<pipelineVars, cin, cout, pin, calls>>

\* PowderSearchSource.parse, and the hours _parse_hourly_table returns
ParseHourly ==
    /\ IsSome(pin) /\ IsNone(pout)
    /\ pout' = Some([parser |-> POWDERSEARCH,
                     res    |-> Powder_parse(Get(pin).mountain, Get(pin).target_date, Get(pin).doc),
                     aux    |-> Powder_parse_hourly_table(Get(pin).doc, Get(pin).target_date)])
    /\ UNCHANGED <<pipelineVars, cin, cout, pin, calls>>

\* the column-to-date sequences the two grid parsers build from the days row:
\* date_sequence of SnowForecastSource._parse_table and the result of
\* MountainForecastSource._expand_dates
ExpandDates ==
    /\ IsSome(pin) /\ IsNone(pout)
    /\ IsSome(Get(pin).doc.grid)
    /\ IsSome(SelectRow(Get(Get(pin).doc.grid), "days"))
    /\ pout' = Some([parser |-> "days",
                     res    |-> Snow_date_sequence(Get(SelectRow(Get(Get(pin).doc.grid), "days"))),
                     aux    |-> Mtn_expand_dates(Get(Get(pin).doc.grid))])
    /\ UNCHANGED <<pipelineVars, cin, cout, pin, calls>>

NextParse == ParseSnow \/ ParseMtn \/ ParseHourly \/ ExpandDates

SpecParse == InitParse /\ [][NextParse]_vars

(***************************************************************************)
(* Persistence: pipeline.py write_daily_json, compat/pydantic.py BaseModel, *)
(* scripts/render_report.py load_daily_json                                *)
(***************************************************************************)
\* variant of the file name: the date is left out
daily_filename_undated(d) ==
    d.mountain_id \o "_" \o d.source_name \o ".json"

\* the file name write_daily_json gives a ForecastDaily
daily_filename(d) ==
    d.mountain_id \o "_" \o d.source_name \o "_" \o IsoFormat(d.target_date) \o ".json"

\* a Python value together with its runtime type
Py(type, value) == [type |-> type, value |-> value]

PyNone == Py("NoneType", "None")

\* an optional value of the model as a Python value
PyOptional(type, o) == IF IsNone(o) THEN PyNone ELSE Py(type, Get(o))

FloatFields ==
    {"snowfall_cm", "snowdepth_cm", "temp_low_c", "temp_high_c", "wind_speed_ms",
     "wind_gust_ms", "condition_score", "confidence"}

TextFields == {"wind_dir", "weather_desc", "notes"}

\* the fields of a ForecastPeriod object as Python values
PeriodObject(p) ==
    [f \in DOMAIN p |->
        IF f = "target_date" THEN Py("date", p[f])
        ELSE IF f = "period" THEN Py("Period", p[f])
        ELSE IF f \in FloatFields THEN PyOptional("float", p[f])
        ELSE IF f \in TextFields THEN PyOptional("str", p[f])
        ELSE Py("str", p[f])]

\* the fields of a ForecastDaily object as Python values; the summary dict
\* holds texts, numbers, lists and dicts with text keys only and is carried as
\* one value
DailyObject(d) ==
    [f \in DOMAIN d |->
        IF f = "target_date" THEN Py("date", d[f])
        ELSE IF f = "periods"
             THEN Py("list", [i \in DOMAIN d.periods |->
                                 Py("ForecastPeriod", PeriodObject(d.periods[i]))])
        ELSE IF f = "daily_summary_json" THEN Py("summary", d[f])
        ELSE IF f \in FloatFields THEN PyOptional("float", d[f])
        ELSE Py("str", d[f])]

\* BaseModel._dump_value(value, "json"): a model is dumped to a dict, a list
\* item by item, a date to its ISO text, an Enum member to its value; anything
\* else is kept
RECURSIVE dump_value(_)
dump_value(v) ==
    IF v.type \in {"ForecastPeriod", "ForecastDaily"}
    THEN Py("dict", [f \in DOMAIN v.value |-> dump_value(v.value[f])])
    ELSE IF v.type = "list"
    THEN Py("list", [i \in DOMAIN v.value |-> dump_value(v.value[i])])
    ELSE IF v.type = "date" THEN Py("str", IsoFormat(v.value))
    ELSE IF v.type = "Period" THEN Py("str", v.value)
    ELSE v

\* BaseModel.model_dump(mode="json")
model_dump(object) == [f \in DOMAIN object |-> dump_value(object[f])]

JsonInfinity == <<"I", "n", "f", "i", "n", "i", "t", "y">>

\* the token json.dumps writes for a float: its repr, Infinity for inf
json_float(h) ==
    IF IsInf(h) THEN (IF h < 0 THEN <<"-">> ELSE <<>>) \o JsonInfinity ELSE FormatFloat(h)

\* the float json.loads reads from a number token
json_parse_float(t) ==
    IF t = JsonInfinity THEN Infinity
    ELSE IF t = <<"-">> \o JsonInfinity THEN 0 - Infinity
    ELSE FloatOf(t)

\* json.dumps(value, indent=2, ensure_ascii=False): the document, each value
\* as the token written for it (objects and arrays keep their members)
RECURSIVE json_dumps(_)
json_dumps(v) ==
    IF v.type = "dict"
    THEN [json |-> "object", members |-> [f \in DOMAIN v.value |-> json_dumps(v.value[f])]]
    ELSE IF v.type = "list"
    THEN [json |-> "array", items |-> [i \in DOMAIN v.value |-> json_dumps(v.value[i])]]
    ELSE IF v.type = "summary" THEN [json |-> "object", summary |-> v.value]
    ELSE IF v.type = "NoneType" THEN [json |-> "null"]
    ELSE IF v.type = "float" THEN [json |-> "number", token |-> json_float(v.value)]
    ELSE [json |-> "string", chars |-> v.value]

\* json.loads(text): objects are loaded as dicts, arrays as lists, strings as
\* str, number tokens with a fraction or Infinity as float, null as None
RECURSIVE json_loads(_)
json_loads(j) ==
    IF j.json = "object" /\ "members" \in DOMAIN j
    THEN Py("dict", [f \in DOMAIN j.members |-> json_loads(j.members[f])])
    ELSE IF j.json = "object" THEN Py("summary", j.summary)
    ELSE IF j.json = "array"
    THEN Py("list", [i \in DOMAIN j.items |-> json_loads(j.items[i])])
    ELSE IF j.json = "null" THEN PyNone
    ELSE IF j.json = "number" THEN Py("float", json_parse_float(j.token))
    ELSE Py("str", j.chars)

\* an annotation as BaseModelMeta finds it in __annotations__: models.py
\* postpones the evaluation of annotations (from __future__ import
\* annotations), so each one is the text of the annotation, not a type
Annotation(text) == [evaluated |-> FALSE, text |-> text]

\* an evaluated annotation: a class, or a generic alias with its argument
TypeForm(origin, arg) == [evaluated |-> TRUE, origin |-> origin, arg |-> arg]

\* ForecastPeriod.__fields__: field name -> type
ForecastPeriodFields ==
    [mountain_id |-> Annotation("str"), source_name |-> Annotation("str"),
     target_date |-> Annotation("dt.date"), period |-> Annotation("Period"),
     snowfall_cm |-> Annotation("Optional[float]"),
     snowdepth_cm |-> Annotation("Optional[float]"),
     temp_low_c |-> Annotation("Optional[float]"),
     temp_high_c |-> Annotation("Optional[float]"),
     wind_speed_ms |-> Annotation("Optional[float]"),
     wind_gust_ms |-> Annotation("Optional[float]"),
     wind_dir |-> Annotation("Optional[str]"),
     weather_desc |-> Annotation("Optional[str]"),
     notes |-> Annotation("Optional[str]")]

\* ForecastDaily.__fields__: field name -> type
ForecastDailyFields ==
    [mountain_id |-> Annotation("str"), source_name |-> Annotation("str"),
     target_date |-> Annotation("dt.date"),
     periods |-> Annotation("List[ForecastPeriod]"),
     daily_summary_json |-> Annotation("Dict[str, Any]"),
     condition_score |-> Annotation("Optional[float]"),
     confidence |-> Annotation("Optional[float]")]

\* datetime.date.fromisoformat
date_fromisoformat(text) == CHOOSE d \in Dates : IsoFormat(d) = text

\* BaseModel._convert_value(field_type, value): None is kept; Optional[T]
\* converts as T, List[T] item by item; a model class builds an instance from
\* a dict, an Enum class a member, dt.date a date from its ISO text; a field
\* type that is not a type (the text of an annotation) converts nothing
RECURSIVE convert_value(_, _)
convert_value(field_type, v) ==
    IF v.type = "NoneType" THEN v
    ELSE IF ~field_type.evaluated THEN v
    ELSE IF field_type.origin = "Optional" THEN convert_value(field_type.arg, v)
    ELSE IF field_type.origin = "List"
    THEN Py("list", [i \in DOMAIN v.value |-> convert_value(field_type.arg, v.value[i])])
    ELSE IF field_type.origin = "ForecastPeriod" /\ v.type = "dict"
    THEN Py("ForecastPeriod",
            [f \in DOMAIN v.value |-> convert_value(field_type.arg[f], v.value[f])])
    ELSE IF field_type.origin = "Period" /\ v.type = "str" THEN Py("Period", v.value)
    ELSE IF field_type.origin = "date" /\ v.type = "str"
    THEN Py("date", date_fromisoformat(v.value))
    ELSE v

\* BaseModel.__init__(**data) of ForecastDaily: every field converted by its
\* type; TypeError for a missing required field or an unexpected one
ForecastDaily_init(data) ==
    IF {"mountain_id", "source_name", "target_date", "periods"} \ DOMAIN data # {}
    THEN Raise([type |-> "TypeError", msg |-> "Missing required field"])
    ELSE IF DOMAIN data \ DOMAIN ForecastDailyFields # {}
    THEN Raise([type |-> "TypeError", msg |-> "Unexpected fields"])
    ELSE Return(Py("ForecastDaily",
                   [f \in DOMAIN ForecastDailyFields |->
                       IF f \in DOMAIN data THEN convert_value(ForecastDailyFields[f], data[f])
                       ELSE IF f = "daily_summary_json" THEN Py("summary", EmptyDict)
                       ELSE PyNone]))

\* BaseModel.model_validate(data): cls(**data)
model_validate(data) == ForecastDaily_init(data.value)

\* BaseModel.model_validate_json(json_str)
model_validate_json(json_str) == model_validate(json_loads(json_str))

\* the payload write_daily_json writes for a ForecastDaily
daily_payload(d) == json_dumps(Py("dict", model_dump(DailyObject(d))))

\* write_daily_json(folder, daily): the folder afterwards
write_daily_json(dir, d) ==
    [f \in DOMAIN dir \cup {daily_filename(d)} |->
        IF f = daily_filename(d) THEN daily_payload(d) ELSE dir[f]]

\* load_daily_json for one path: the ForecastDaily appended, none (and a
\* warning) when reading or validating raises
load_daily_json(dir, path) ==
    IF path \notin DOMAIN dir THEN None
    ELSE IF Raised(model_validate_json(dir[path])) THEN None
    ELSE Some(model_validate_json(dir[path]).value)

(***************************************************************************)
(* Specification SpecCollect: one call of collect, or of                   *)
(* _fetch_with_fallback, in one environment                                *)
(***************************************************************************)
\* a grid of three columns night / AM / PM, two dated Date1 and one Date2, and an
\* hourly table of day 2 whose rows are out of hour order
SampleGrid ==
    GridTable(Some(<<Cell("td", <<>>, Some(IsoFormat(Date1)), Some(<<"2">>)),
                     Cell("td", <<>>, Some(IsoFormat(Date2)), None)>>),
              Some(<<Td(<<"n","i","g","h","t">>), Td(<<"A","M">>), Td(<<"P","M">>)>>),
              SomeData)

SampleHours ==
    << <<Th(<<"d","a","y">>), Th(<<"h","o","u","r">>)>>,
       <<DayCell(<<"2">>), Td(<<"2","1">>), Td(<<"-","3",".","5">>), Td(<<"0">>),
         Td(<<"N","W","/","5">>), Td(<<"-">>), Td(<<"1","2","0">>), Td(<<"/">>)>>,
       <<Td(<<"9">>), Td(<<"2">>), Td(<<"-","-">>), Td(<<"S">>)>>,
       <<DayCell(<<"3">>), Td(<<"0">>), Td(<<"1">>)>> >>

SampleDoc == [grid |-> Some(SampleGrid), hourly |-> Some(SampleHours)]

\* both columns of the target date carry the same period label
TwinDoc ==
    [grid   |-> Some(GridTable(Some(<<Cell("td", <<>>, Some(IsoFormat(Date1)), Some(<<"2">>)),
                                      Cell("td", <<>>, Some(IsoFormat(Date2)), Some(<<"2">>))>>),
                               Some(<<Td(<<"A","M">>), Td(<<"a","m">>),
                                      Td(<<"n","i","g","h","t">>), Td(<<"P","M">>)>>),
                               SomeData)),
     hourly |-> Some(<<SampleHours[3], SampleHours[2]>>)]

\* a days cell whose colspan is no number
BadSpanDoc ==
    GridDoc(Some(<<Cell("td", <<>>, Some(IsoFormat(Date1)), Some(<<"x">>))>>),
            Some(<<Td(<<"A","M">>)>>), NoData)

\* what a live fetch can answer
FetchedDocs == {SampleDoc, TwinDoc, BadSpanDoc, NoTableDoc}

LiveOutcomes ==
    {Return(doc) : doc \in FetchedDocs}
    \cup {Raise([type |-> "HTTPError", msg |-> "404 Not Found"]),
          Raise([type |-> "ConnectionError", msg |-> "network blocked"])}

Niseko ==
    Mountain("niseko", "Niseko",
        [s \in {SNOWFORECAST, MOUNTAINFORECAST} |->
            IF s = SNOWFORECAST THEN Url("", "", "pages/niseko.html", FALSE)
            ELSE Url("file", "", "/data/niseko.html", TRUE)])

Unlisted == Mountain("unlisted", "Unlisted", EmptyDict)

Blank ==
    Mountain("blank", "Blank",
        [s \in {MOUNTAINFORECAST, POWDERSEARCH} |->
            IF s = MOUNTAINFORECAST THEN Url("", "", "", FALSE)
            ELSE Url("https", "example.com", "/blank", TRUE)])

Mountains == {Hakuba, Niseko, Unlisted, Blank}

\* BACKCOUNTRY_OFFLINE_SAMPLE_DIR: unset, an absolute and a relative directory
SampleDirs ==
    {None, Some([abs |-> TRUE, name |-> "/samples"]), Some([abs |-> FALSE, name |-> "samples"])}

Flags == {None, Some(""), Some("0"), Some("1")}

\* the sample path of an adapter and a date under a sample directory setting
SamplePath(dir, source_name, date) ==
    (IF IsNone(dir) THEN "/project/local_samples"
     ELSE IF Get(dir).abs THEN Get(dir).name
     ELSE "/project/" \o Get(dir).name)
    \o "/" \o source_name \o "_" \o IsoFormat(date) \o ".html"

\* a file system holding `doc` at each of the given paths
Files(paths, doc) == [p \in paths |-> doc]

\* the file systems: nothing; samples of Date1 in the default directory only;
\* samples and local pages everywhere
FileSystems ==
    { EmptyDict,
      Files({SamplePath(None, a, Date1) : a \in Adapters}, TwinDoc),
      Files({SamplePath(dir, a, d) : dir \in SampleDirs, a \in Adapters, d \in Dates}
            \cup {"/data/niseko.html", "/cwd/pages/niseko.html"}, SampleDoc) }

Clock == {0, 1}

Envs ==
    [flag : Flags, sample_dir : SampleDirs, live : LiveOutcomes, fs : FileSystems, now : Clock]

InitCollect ==
    /\ PipelineIdle
    /\ ParseIdle
    /\ \E env \in Envs, mountain \in Mountains, target_date \in Dates :
          cin = Some([env |-> env, mountain |-> mountain, target_date |-> target_date])
    /\ cout = None
    /\ calls = <<>>

\* source.collect(mountain, target_date) of one adapter
CallCollect(source_name) ==
    /\ IsSome(cin) /\ IsNone(cout)
    /\ LET done == Collect(source_name, Get(cin).env, Get(cin).mountain, Get(cin).target_date)
       IN  cout' = Some([op |-> "collect", adapter |-> source_name,
                         res |-> done.res, io |-> done.io])
    /\ UNCHANGED <<pipelineVars, cin, pin, pout, calls>>

CollectSnow == CallCollect(SNOWFORECAST)

CollectMtn == CallCollect(MOUNTAINFORECAST)

CollectPowder == CallCollect(POWDERSEARCH)

\* source._fetch_with_fallback(url, mountain, target_date) on a configured URL
FetchWithFallback ==
    /\ IsSome(cin) /\ IsNone(cout)
    /\ \E source_name \in Adapters :
          /\ source_name \in DOMAIN Get(cin).mountain.sources
          /\ LET url  == Get(cin).mountain.sources[source_name]
                 done == fetch_with_fallback(Get(cin).env, source_name, url, Get(cin).target_date)
             IN  cout' = Some([op |-> "_fetch_with_fallback", adapter |-> source_name,
                               res |-> done.res, io |-> done.io])
    /\ UNCHANGED <<pipelineVars, cin, pin, pout, calls>>

\* source._offline_sample_path(target_date)
OfflineSamplePath ==
    /\ IsSome(cin) /\ IsNone(cout)
    /\ \E source_name \in Adapters :
          cout' = Some([op |-> "_offline_sample_path", adapter |-> source_name,
                        res |-> offline_sample_path(Get(cin).env, source_name, Get(cin).target_date),
                        io |-> << <<"getenv", "BACKCOUNTRY_OFFLINE">> >>])
    /\ UNCHANGED <<pipelineVars, cin, pin, pout, calls>>

\* source.fetch_text(url) on a configured URL
FetchText ==
    /\ IsSome(cin) /\ IsNone(cout)
    /\ \E source_name \in Adapters :
          /\ source_name \in DOMAIN Get(cin).mountain.sources
          /\ LET done == fetch_text(Get(cin).env, Get(cin).mountain.sources[source_name])
             IN  cout' = Some([op |-> "fetch_text", adapter |-> source_name,
                               res |-> done.res, io |-> done.io])
    /\ UNCHANGED <<pipelineVars, cin, pin, pout, calls>>

\* write_daily_json(folder, daily) with the ForecastDaily collect returned
WriteJson ==
    /\ IsSome(cout) /\ Get(cout).op = "collect" /\ Returned(Get(cout).res)
    /\ folder = EmptyDict
    /\ folder' = write_daily_json(folder, Get(cout).res.value)
    /\ UNCHANGED <<targetDate, mountains, sources, pc, mi, si, daily, results, events,
                   outcome, cin, cout, pin, pout, calls>>

\* load_daily_json on the path of a written document
LoadJson ==
    /\ IsNone(pout)
    /\ \E path \in DOMAIN folder :
          /\ pin' = Some([loader |-> "load_daily_json", path |-> path])
          /\ pout' = Some([loader |-> "load_daily_json", res |-> load_daily_json(folder, path)])
    /\ UNCHANGED <<pipelineVars, cin, cout, calls>>

NextCollect ==
    \/ CollectSnow \/ CollectMtn \/ CollectPowder \/ FetchWithFallback \/ FetchText
    \/ OfflineSamplePath \/ WriteJson \/ LoadJson

SpecCollect == InitCollect /\ [][NextCollect]_vars

(***************************************************************************)
(* Properties of collect and _fetch_with_fallback (SpecCollect)            *)
(***************************************************************************)
In == Get(cin)

Out == Get(cout)

\* the call made was collect of the adapter / _fetch_with_fallback for it
IsCollect(source_name) ==
    IsSome(cout) /\ Out.op = "collect" /\ Out.adapter = source_name

IsFetch(source_name) ==
    IsSome(cout) /\ Out.op = "_fetch_with_fallback" /\ Out.adapter = source_name

\* the mountain configures a non-local URL for the adapter
NonLocal(mountain, source_name) ==
    /\ source_name \in DOMAIN mountain.sources
    /\ UrlStr(mountain.sources[source_name]) # ""
    /\ mountain.sources[source_name].scheme \notin {"", "file"}

ConfiguredUrl(source_name) == UrlStr(In.mountain.sources[source_name])

LiveFails == Raised(In.env.live)

OfflineFlagSet == IsSome(In.env.flag) /\ Get(In.env.flag) # ""

ExpectedSamplePath(source_name) == SamplePath(In.env.sample_dir, source_name, In.target_date)

SamplePresent(source_name) == ExpectedSamplePath(source_name) \in DOMAIN In.env.fs

\* C1: MountainForecastSource.collect never propagates a retrieval failure: for a
\* non-local sole URL whose live fetch fails, collect returns a ForecastDaily in
\* every environment (flag unset; flag set and sample present; flag set and
\* sample absent).
C1_NeverPropagates ==
    (IsCollect(MOUNTAINFORECAST) /\ NonLocal(In.mountain, MOUNTAINFORECAST) /\ LiveFails)
        => Returned(Out.res)

\* the placeholder path of MountainForecastSource.collect is taken: the except
\* clause caught what _fetch_with_fallback raised
PlaceholderPath ==
    /\ IsCollect(MOUNTAINFORECAST)
    /\ MOUNTAINFORECAST \in DOMAIN In.mountain.sources
    /\ ConfiguredUrl(MOUNTAINFORECAST) # ""
    /\ LET fetched == fetch_with_fallback(In.env, MOUNTAINFORECAST,
                          In.mountain.sources[MOUNTAINFORECAST], In.target_date)
       IN  Raised(fetched.res) /\ fetched.res.exc.type \in RequestExceptions

IsPlaceholderPeriod(p) ==
    /\ p.snowfall_cm = Some(0) /\ p.snowdepth_cm = Some(0)
    /\ p.temp_low_c = Some(0) /\ p.temp_high_c = Some(0)
    /\ p.wind_speed_ms = Some(0) /\ p.wind_gust_ms = Some(0)
    /\ p.wind_dir = Some(<<"-">>) /\ p.weather_desc = Some(<<"-">>) /\ p.notes = Some(<<"-">>)

\* C2: on the placeholder path collect returns exactly three periods, one each of
\* night, morning and afternoon, every numeric field 0.0, wind_dir, weather_desc
\* and notes "-", and a summary with status "fallback", the failure reason,
\* source_urls equal to the one configured URL and three columns of rain_mm 0.0.
C2_PlaceholderRecord ==
    PlaceholderPath =>
        /\ Returned(Out.res)
        /\ LET d == Out.res.value
               s == d.daily_summary_json
           IN  /\ Len(d.periods) = 3
               /\ \A q \in Period : Cardinality({i \in 1..3 : d.periods[i].period = q}) = 1
               /\ \A i \in 1..3 : IsPlaceholderPeriod(d.periods[i])
               /\ DOMAIN s = {"status", "reason", "source_urls", "fetched_at", "columns", "units"}
               /\ s.status = "fallback"
               /\ s.reason = In.env.live.exc.msg
               /\ s.source_urls = <<ConfiguredUrl(MOUNTAINFORECAST)>>
               /\ Len(s.columns) = 3
               /\ \A i \in 1..3 : s.columns[i].rain_mm = Some(0)

C2_Witness == PlaceholderPath /\ Returned(Out.res)

\* C3: _fetch_with_fallback on a non-local URL: when the live fetch raises and
\* the offline flag is set and the sample is absent, it raises another error that
\* names the URL and the sample path; when the flag is unset it raises the
\* original error; when the live fetch succeeds it returns the fetched text and
\* never looks at the sample file.
C3_FetchWithFallback ==
    \A a \in Adapters :
        (IsFetch(a) /\ NonLocal(In.mountain, a)) =>
            /\ (LiveFails /\ OfflineFlagSet /\ ~SamplePresent(a)) =>
                  /\ Raised(Out.res)
                  /\ Out.res.exc # In.env.live.exc
                  /\ Out.res.exc.type = "RuntimeError"
                  /\ Out.res.exc.url = ConfiguredUrl(a)
                  /\ Out.res.exc.path = ExpectedSamplePath(a)
            /\ (LiveFails /\ ~OfflineFlagSet) => Out.res = In.env.live
            /\ ~LiveFails =>
                  /\ Out.res = In.env.live
                  /\ \A i \in DOMAIN Out.io : Out.io[i][1] \notin {"exists", "read"}

C3_Witness ==
    /\ IsFetch(POWDERSEARCH) /\ NonLocal(In.mountain, POWDERSEARCH)
    /\ LiveFails /\ OfflineFlagSet /\ ~SamplePresent(POWDERSEARCH)
    /\ Raised(Out.res) /\ Out.res.exc.type = "RuntimeError"

\* a ForecastDaily without its fetch timestamp
WithoutTimestamp(d) ==
    [d EXCEPT !.daily_summary_json =
        [k \in DOMAIN d.daily_summary_json \ {"fetched_at"} |-> d.daily_summary_json[k]]]

\* the same environment at another time, the live fetch answering with the
\* sample's text
LiveWithSample(env, path) ==
    [env EXCEPT !.live = Return(env.fs[path]), !.now = 1 - env.now]

\* C4: for each adapter, with the offline flag set, the live fetch of the
\* non-local URL failing and the sample present, collect returns what it returns
\* when the live fetch answers with the sample's text (timestamp aside); the
\* result lists the configured URL and has no fallback marker.
C4_SampleAsLive ==
    \A a \in Adapters :
        (IsCollect(a) /\ NonLocal(In.mountain, a) /\ LiveFails /\ OfflineFlagSet
            /\ SamplePresent(a)) =>
            LET live == Collect(a, LiveWithSample(In.env, ExpectedSamplePath(a)),
                                In.mountain, In.target_date).res
            IN  /\ Returned(Out.res) /\ Returned(live)
                /\ WithoutTimestamp(Out.res.value) = WithoutTimestamp(live.value)
                /\ "status" \notin DOMAIN Out.res.value.daily_summary_json
                /\ "source_urls" \in DOMAIN Out.res.value.daily_summary_json =>
                      Out.res.value.daily_summary_json.source_urls = <<ConfiguredUrl(a)>>

C4_Witness ==
    /\ IsCollect(MOUNTAINFORECAST) /\ NonLocal(In.mountain, MOUNTAINFORECAST)
    /\ LiveFails /\ OfflineFlagSet /\ SamplePresent(MOUNTAINFORECAST)
    /\ Returned(Out.res) /\ Len(Out.res.value.periods) >= 2

\* C8: in every ForecastDaily collect returns, no two periods have the same
\* period value.
C8_PeriodsUnique ==
    (IsSome(cout) /\ Out.op = "collect" /\ Returned(Out.res)) =>
        \A i, j \in DOMAIN Out.res.value.periods :
            i # j => Out.res.value.periods[i].period # Out.res.value.periods[j].period

\* C9: in every ForecastDaily collect returns, the target_date, mountain_id and
\* source_name of every period are those of the ForecastDaily, which are the
\* requested date, the requested mountain's id and the adapter's source_name.
C9_PeriodIdentity ==
    (IsSome(cout) /\ Out.op = "collect" /\ Returned(Out.res)) =>
        LET d == Out.res.value
        IN  /\ d.target_date = In.target_date
            /\ d.mountain_id = In.mountain.mountain_id
            /\ d.source_name = Out.adapter
            /\ \A i \in DOMAIN d.periods :
                  /\ d.periods[i].target_date = d.target_date
                  /\ d.periods[i].mountain_id = d.mountain_id
                  /\ d.periods[i].source_name = d.source_name

C9_Witness ==
    /\ IsCollect(MOUNTAINFORECAST) /\ Returned(Out.res)
    /\ In.target_date = Date2 /\ NonLocal(In.mountain, MOUNTAINFORECAST)
    /\ "status" \notin DOMAIN Out.res.value.daily_summary_json
    /\ Len(Out.res.value.periods) >= 2

(***************************************************************************)
(* Properties of the parsers (SpecParse)                                   *)
(***************************************************************************)
\* C10: parsing never raises: for every document the two grid parsers and the
\* hourly table parser return a (possibly empty) result.
C10_ParseNeverRaises ==
    IsSome(pout) => Returned(Get(pout).res) /\ Returned(Get(pout).aux)

(***************************************************************************)
(* Specification Spec: run_daily (pipeline.py)                             *)
(***************************************************************************)
\* longest mountains argument
MaxMountains == 2

\* the sources dict scripts/run_daily.py builds, in insertion order
Registry ==
    << <<SNOWFORECAST, SNOWFORECAST>>, <<POWDERSEARCH, POWDERSEARCH>>,
       <<MOUNTAINFORECAST, MOUNTAINFORECAST>> >>

\* the sources arguments: <<key, source_name of the adapter>> in dict order
SourceMaps ==
    { Registry,
      << <<MOUNTAINFORECAST, MOUNTAINFORECAST>> >>,
      << <<"mf", MOUNTAINFORECAST>>, <<SNOWFORECAST, SNOWFORECAST>> >> }

RunMountains == {Hakuba, Niseko, Unlisted}

\* what the world can be when one collect runs
RunEnvs ==
    LET everything == CHOOSE fs \in FileSystems : "/data/niseko.html" \in DOMAIN fs
        env(flag, live) == [flag |-> flag, sample_dir |-> None, live |-> live,
                            fs |-> everything, now |-> 0]
    IN  { env(None, Return(SampleDoc)),
          env(None, Return(BadSpanDoc)),
          env(None, Raise([type |-> "HTTPError", msg |-> "404 Not Found"])),
          env(Some("1"), Raise([type |-> "ConnectionError", msg |-> "network blocked"])) }

\* variant of the skip condition: `key not in mountain.sources` alone
skip_pair_unlisted(key, mountain) ==
    key \notin DOMAIN mountain.sources

\* `key not in mountain.sources and mountain.sources`
skip_pair(key, mountain) ==
    key \notin DOMAIN mountain.sources /\ DOMAIN mountain.sources # {}

\* the next (mountain, source) position of the nested loops
NextPair ==
    IF si < Len(sources) THEN <<mi, si + 1>> ELSE <<mi + 1, 1>>

\* the first position of the nested loops: the first mountain if there are sources
FirstPair == IF Len(sources) = 0 THEN <<Len(mountains) + 1, 1>> ELSE <<1, 1>>

PairsLeft == mi <= Len(mountains) /\ si <= Len(sources)

Init ==
    /\ targetDate \in Dates
    /\ mountains \in SeqsUpTo(RunMountains, MaxMountains)
    /\ sources \in SourceMaps
    /\ pc = "start"
    /\ mi = 0
    /\ si = 0
    /\ daily = None
    /\ results = <<>>
    /\ folder = EmptyDict
    /\ events = <<>>
    /\ outcome = None
    /\ CallIdle
    /\ ParseIdle

\* run_daily up to the first iteration: results = []
Start ==
    /\ pc = "start"
    /\ pc' = "loop"
    /\ results' = <<>>
    /\ mi' = FirstPair[1]
    /\ si' = FirstPair[2]
    /\ UNCHANGED <<targetDate, mountains, sources, daily, folder, events, outcome,
                   cin, cout, pin, pout, calls>>

\* `continue`: the pair is skipped
Skip ==
    /\ pc = "loop" /\ PairsLeft
    /\ skip_pair(sources[si][1], mountains[mi])
    /\ events' = Append(events, <<"skip", mi, si>>)
    /\ mi' = NextPair[1]
    /\ si' = NextPair[2]
    /\ UNCHANGED <<targetDate, mountains, sources, pc, daily, results, folder, outcome,
                   cin, cout, pin, pout, calls>>

\* daily = source.collect(mountain, target_date), returning
CollectReturns ==
    /\ pc = "loop" /\ PairsLeft
    /\ ~skip_pair(sources[si][1], mountains[mi])
    /\ \E env \in RunEnvs :
          LET done == Collect(sources[si][2], env, mountains[mi], targetDate)
          IN  /\ Returned(done.res)
              /\ daily' = Some(done.res.value)
    /\ events' = Append(events, <<"collect", mi, si, "return">>)
    /\ pc' = "append"
    /\ UNCHANGED <<targetDate, mountains, sources, mi, si, results, folder, outcome,
                   cin, cout, pin, pout, calls>>

\* variant of a raising collect: run_daily swallows the error and goes on
CollectRaisesSwallowed ==
    /\ pc = "loop" /\ mi <= Len(mountains) /\ si <= Len(sources)
    /\ ~skip_pair(sources[si][1], mountains[mi])
    /\ \E env \in RunEnvs :
          Raised(Collect(sources[si][2], env, mountains[mi], targetDate).res)
    /\ events' = Append(events, <<"collect", mi, si, "raise">>)
    /\ mi' = IF si < Len(sources) THEN mi ELSE mi + 1
    /\ si' = IF si < Len(sources) THEN si + 1 ELSE 1
    /\ UNCHANGED <<targetDate, mountains, sources, pc, daily, results, folder, outcome,
                   cin, cout, pin, pout, calls>>

\* variant of a raising collect: the documents written so far are removed
CollectRaisesRollingBack ==
    /\ pc = "loop" /\ PairsLeft
    /\ ~skip_pair(sources[si][1], mountains[mi])
    /\ \E env \in RunEnvs :
          LET done == Collect(sources[si][2], env, mountains[mi], targetDate)
          IN  /\ Raised(done.res)
              /\ outcome' = Some(done.res)
    /\ events' = Append(events, <<"collect", mi, si, "raise">>)
    /\ pc' = "raised"
    /\ folder' = EmptyDict
    /\ UNCHANGED <<targetDate, mountains, sources, mi, si, daily, results,
                   cin, cout, pin, pout, calls>>

\* source.collect(mountain, target_date) raising: nothing in run_daily catches it
CollectRaises ==
    /\ pc = "loop" /\ PairsLeft
    /\ ~skip_pair(sources[si][1], mountains[mi])
    /\ \E env \in RunEnvs :
          LET done == Collect(sources[si][2], env, mountains[mi], targetDate)
          IN  /\ Raised(done.res)
              /\ outcome' = Some(done.res)
    /\ events' = Append(events, <<"collect", mi, si, "raise">>)
    /\ pc' = "raised"
    /\ UNCHANGED <<targetDate, mountains, sources, mi, si, daily, results, folder,
                   cin, cout, pin, pout, calls>>

\* results.append(daily)
AppendResult ==
    /\ pc = "append"
    /\ results' = Append(results, Get(daily))
    /\ events' = Append(events, <<"append", mi, si>>)
    /\ pc' = "write"
    /\ UNCHANGED <<targetDate, mountains, sources, mi, si, daily, folder, outcome,
                   cin, cout, pin, pout, calls>>

\* write_daily_json(folder, daily), then on to the next pair
WriteDaily ==
    /\ pc = "write"
    /\ folder' = write_daily_json(folder, Get(daily))
    /\ events' = Append(events, <<"write", mi, si, daily_filename(Get(daily))>>)
    /\ daily' = None
    /\ mi' = NextPair[1]
    /\ si' = NextPair[2]
    /\ pc' = "loop"
    /\ UNCHANGED <<targetDate, mountains, sources, results, outcome, cin, cout, pin, pout, calls>>

\* return results
ReturnResults ==
    /\ pc = "loop" /\ ~PairsLeft
    /\ outcome' = Some(Return(results))
    /\ pc' = "returned"
    /\ UNCHANGED <<targetDate, mountains, sources, mi, si, daily, results, folder, events,
                   cin, cout, pin, pout, calls>>

Next ==
    \/ Start
    \/ Skip
    \/ CollectReturns
    \/ CollectRaises
    \/ AppendResult
    \/ WriteDaily
    \/ ReturnResults

Spec == Init /\ [][Next]_vars

(***************************************************************************)
(* Properties of run_daily (Spec)                                          *)
(***************************************************************************)
\* the log entries of one kind about the pair (m, s)
EventsOf(kind, m, s) ==
    {i \in DOMAIN events : events[i][1] = kind /\ events[i][2] = m /\ events[i][3] = s}

\* all (mountain, source) positions, mountain-major, as a set and as a sequence
Pairs == (1..Len(mountains)) \X (1..Len(sources))

PairSeq ==
    [k \in 1..(Len(mountains) * Len(sources)) |->
        <<((k - 1) \div Len(sources)) + 1, ((k - 1) % Len(sources)) + 1>>]

PairBefore(p, q) == p[1] < q[1] \/ (p[1] = q[1] /\ p[2] < q[2])

\* the mountain's source map is non-empty and lacks the source's key
ShouldSkip(m, s) ==
    /\ DOMAIN mountains[m].sources # {}
    /\ sources[s][1] \notin DOMAIN mountains[m].sources

Finished == pc \in {"returned", "raised"}

\* collect raised for a pair before p
RaisedBefore(p) ==
    \E i \in DOMAIN events :
        /\ events[i][1] = "collect" /\ events[i][4] = "raise"
        /\ PairBefore(<<events[i][2], events[i][3]>>, p)

\* C5 as stated: when run_daily has ended, a pair was skipped iff its mountain's
\* source map is non-empty and lacks the source's key, and collect was called
\* exactly once for every other pair.
C5_EveryOtherPairCollected ==
    Finished =>
        \A p \in Pairs :
            /\ (EventsOf("skip", p[1], p[2]) # {}) <=> ShouldSkip(p[1], p[2])
            /\ ~ShouldSkip(p[1], p[2]) => Cardinality(EventsOf("collect", p[1], p[2])) = 1

\* C5 (amended): a pair is never both skipped and collected, nor either twice;
\* when run_daily has ended, every pair with no raising collect before it was
\* skipped iff its mountain's source map is non-empty and lacks the source's key
\* and otherwise had collect called exactly once (an empty source map included),
\* and the pairs after a raising collect were neither skipped nor collected.
C5_ReachedPairsCollected ==
    \A p \in Pairs :
        /\ Cardinality(EventsOf("skip", p[1], p[2])) <= 1
        /\ Cardinality(EventsOf("collect", p[1], p[2])) <= 1
        /\ EventsOf("skip", p[1], p[2]) # {} => ShouldSkip(p[1], p[2])
        /\ EventsOf("collect", p[1], p[2]) # {} => ~ShouldSkip(p[1], p[2])
        /\ (Finished /\ ~RaisedBefore(p)) =>
              /\ ShouldSkip(p[1], p[2]) => Cardinality(EventsOf("skip", p[1], p[2])) = 1
              /\ ~ShouldSkip(p[1], p[2]) => Cardinality(EventsOf("collect", p[1], p[2])) = 1
        /\ (Finished /\ RaisedBefore(p)) =>
              EventsOf("skip", p[1], p[2]) \cup EventsOf("collect", p[1], p[2]) = {}

C5_Witness ==
    /\ pc = "raised"
    /\ \E p \in Pairs : EventsOf("skip", p[1], p[2]) # {}
    /\ \E p \in Pairs : /\ DOMAIN mountains[p[1]].sources = {}
                        /\ EventsOf("collect", p[1], p[2]) # {}
    /\ \E p \in Pairs : RaisedBefore(p)

\* {mountain_id}_{source_name}_{date}.json of the pair (m, s)
ExpectedFile(m, s) ==
    mountains[m].mountain_id \o "_" \o sources[s][2] \o "_" \o IsoFormat(targetDate) \o ".json"

\* d is a ForecastDaily of the pair (m, s) and the target date
DailyOf(d, m, s) ==
    /\ d.mountain_id = mountains[m].mountain_id
    /\ d.source_name = sources[s][2]
    /\ d.target_date = targetDate

NonSkipped == SelectSeq(PairSeq, LAMBDA p : ~ShouldSkip(p[1], p[2]))

\* C6: pairs are taken one at a time in mountain-major order; what collect
\* returned for a pair is appended to the output and then written to
\* {mountain_id}_{source_name}_{date}.json before any later collect; on normal
\* completion the returned sequence holds one ForecastDaily per non-skipped
\* pair, in processing order.
C6_OneAtATimeInOrder ==
    /\ \A i, j \in DOMAIN events :
          (i < j /\ events[i][1] \in {"collect", "skip"} /\ events[j][1] \in {"collect", "skip"})
              => PairBefore(<<events[i][2], events[i][3]>>, <<events[j][2], events[j][3]>>)
    /\ \A i \in DOMAIN events :
          (events[i][1] = "collect" /\ events[i][4] = "return") =>
              /\ i + 1 <= Len(events) => events[i + 1] = <<"append", events[i][2], events[i][3]>>
              /\ i + 2 <= Len(events) =>
                    events[i + 2] = <<"write", events[i][2], events[i][3],
                                      ExpectedFile(events[i][2], events[i][3])>>
              /\ pc = "loop" => i + 2 <= Len(events)
    /\ (events # <<>> /\ events[Len(events)][1] = "append") =>
          /\ results # <<>>
          /\ DailyOf(results[Len(results)], events[Len(events)][2], events[Len(events)][3])
    /\ (events # <<>> /\ events[Len(events)][1] = "write") =>
          /\ results # <<>>
          /\ events[Len(events)][4] \in DOMAIN folder
          /\ folder[events[Len(events)][4]] = daily_payload(results[Len(results)])
    /\ pc = "returned" =>
          /\ outcome = Some(Return(results))
          /\ Len(results) = Len(NonSkipped)
          /\ \A k \in DOMAIN results :
                /\ DailyOf(results[k], NonSkipped[k][1], NonSkipped[k][2])
                /\ ExpectedFile(NonSkipped[k][1], NonSkipped[k][2]) \in DOMAIN folder
          /\ Cardinality({i \in DOMAIN events : events[i][1] = "write"}) = Len(results)

C6_Witness ==
    /\ pc = "returned"
    /\ Len(results) >= 3
    /\ \E p \in Pairs : EventsOf("skip", p[1], p[2]) # {}
    /\ Len(mountains) = 2

\* C7: a failure of collect is not caught: once collect has raised for a pair,
\* run_daily has terminated with that same error, nothing was done after that
\* collect (no later pair collected, appended or written), and no result list
\* is returned.
C7_CollectFailurePropagates ==
    /\ \A i \in DOMAIN events :
          (events[i][1] = "collect" /\ events[i][4] = "raise") =>
              /\ i = Len(events)
              /\ pc = "raised"
              /\ IsSome(outcome) /\ Raised(Get(outcome))
              /\ \E env \in RunEnvs :
                    Collect(sources[events[i][3]][2], env, mountains[events[i][2]],
                            targetDate).res = Get(outcome)
    /\ (IsSome(outcome) /\ Returned(Get(outcome))) =>
          \A i \in DOMAIN events : events[i][1] = "collect" => events[i][4] = "return"
    /\ pc = "raised" =>
          /\ events # <<>> /\ events[Len(events)][1] = "collect"
          /\ events[Len(events)][4] = "raise"

C7_Witness ==
    /\ pc = "raised"
    /\ Len(results) >= 1
    /\ Get(outcome).exc.type = "ValueError"
    /\ \E p \in Pairs : ~ShouldSkip(p[1], p[2]) /\ RaisedBefore(p)

(***************************************************************************)
(* Specification SpecText: one extraction function, or one parser on a     *)
(* one-column document, applied to one cell text                           *)
(***************************************************************************)
\* longest generated cell text
MaxTextLen == 3

\* the missing-value markers
MarkerTexts ==
    { <<"-">>, <<"-","-">>, <<"?">>, <<"/">>, <<>> }

\* texts with and without numbers
NumeralTexts ==
    { <<"0">>, <<"0",".","0">>, <<"1","2">>, <<"-","3",".","5">>, <<"1",".","2","5">>,
      <<"x","-","2","y">>, <<"a","1",".","5",".","2">>, <<"-",".","5">>, <<"3",".">>, <<"1","-","2">>,
      <<"s","n","o","w"," ","7","c","m">>, <<"1","2","0">>, <<"-","0">> }

\* wind cells of the form <s>-<g><DIR> and <s><DIR>, with spaces or a km/h unit,
\* and the integers and letters they are written from
WindCases ==
    { [text |-> <<"2","0","-","3","0","N","W">>, s |-> 20, g |-> Some(30), dir |-> <<"N","W">>],
      [text |-> <<"2","0"," ","-"," ","3","0"," ","N","W">>, s |-> 20, g |-> Some(30), dir |-> <<"N","W">>],
      [text |-> <<"2","0","-","3","0"," ","k","m","/","h"," ","N","W">>, s |-> 20, g |-> Some(30), dir |-> <<"N","W">>],
      [text |-> <<"2","0","-","3","0","k","m","/","h","N","W">>, s |-> 20, g |-> Some(30), dir |-> <<"N","W">>],
      [text |-> <<"7","-","9","S","S","E">>, s |-> 7, g |-> Some(9), dir |-> <<"S","S","E">>],
      [text |-> <<"3","6","-","7","2"," ","W">>, s |-> 36, g |-> Some(72), dir |-> <<"W">>],
      [text |-> <<"0","-","5","E">>, s |-> 0, g |-> Some(5), dir |-> <<"E">>],
      [text |-> <<"1","5","N">>, s |-> 15, g |-> None, dir |-> <<"N">>],
      [text |-> <<"1","5"," ","k","m","/","h"," ","N">>, s |-> 15, g |-> None, dir |-> <<"N">>],
      [text |-> <<"5"," ","S">>, s |-> 5, g |-> None, dir |-> <<"S">>],
      [text |-> <<"1","0","0","E">>, s |-> 100, g |-> None, dir |-> <<"E">>],
      [text |-> <<"1","N","E">>, s |-> 1, g |-> None, dir |-> <<"N","E">>] }

\* wind cells
WindTexts ==
    {c.text : c \in WindCases} \cup
    { <<"1","2"," ","k","m","/","h">>, <<"C","a","l","m">>, <<"c","a","l","m">>,
      <<"N","W"," ","/"," ","5">>, <<"N","W","/","5">>, <<"S">>, <<"0">>, <<"k","m","/","h">>, <<"C","A","L","M">>, <<"5","-","n">> }

\* period labels
LabelTexts ==
    { <<"A","M">>, <<"a","m">>, <<"P","M">>, <<" ","p","m",".">>, <<"n","i","g","h","t">>,
      <<"E","v","e","n","i","n","g">>, <<"m","o","r","n","i","n","g">>, <<"a","f","t","e","r","n","o","o","n">>, <<"M","o","n"," ","n","i","g","h","t">>, <<"M","o","r","n","i","n","g","/","P","M">>,
      <<"p","m"," ","a","m">>, <<"A","M","?">>, <<"n","o","o","n">>, <<"?","?">>, <<"?">>,
      <<"x","?","?">>, <<"a","m","1">>, <<"p",".","m",".">>, <<"n","i","g","h","t","l","y">>, <<"T","u","e","-","A","M","!">>,
      <<"a"," ","m">> }

\* a run of digits one longer than the least integer float() cannot hold
HugeNumeral == [i \in 1..(Len(FloatOverflowThreshold) + 1) |-> "9"]

GeneratedTexts == SeqsUpTo({"-", "1", ".", "5", "x"}, MaxTextLen)

\* the cell texts the functions are given
Texts ==
    MarkerTexts \cup NumeralTexts \cup WindTexts \cup LabelTexts \cup GeneratedTexts
    \cup {HugeNumeral}

\* a grid of one column dated Date1 and labelled AM whose tracked rows all hold
\* the text; `labelled` gives every data row a leading label cell
OneColumnGrid(text, labelled) ==
    [grid   |-> Some(GridTable(Some(<<Cell("td", <<>>, Some(IsoFormat(Date1)), None)>>),
                               Some(<<Td(<<"A", "M">>)>>),
                               [n \in RowNames \ {"days", "time"} |->
                                   Some(IF labelled THEN <<Th(<<>>), Td(text)>>
                                        ELSE <<Td(text)>>)])),
     hourly |-> None]

\* an hourly table of one row of day 2, hour 9, whose value cells all hold the text
OneHourTable(text) ==
    HourlyDoc(<< <<DayCell(<<"2">>), Td(<<"9">>), Td(text), Td(text), Td(text), Td(text),
                   Td(text), Td(text)>> >>)

\* a grid of one column dated Date1 whose time cell holds the label and whose
\* tracked rows all hold 1
OneLabelGrid(label) ==
    [grid   |-> Some(GridTable(Some(<<Cell("td", <<>>, Some(IsoFormat(Date1)), None)>>),
                               Some(<<Td(label)>>),
                               [n \in RowNames \ {"days", "time"} |->
                                   Some(<<Th(<<>>), Td(<<"1">>)>>)])),
     hourly |-> None]

InitText ==
    /\ PipelineIdle
    /\ CallIdle
    /\ \E text \in Texts : pin = Some([text |-> text])
    /\ pout = None

\* the function `fn` applied to the text gave `res`
Applied(fn, res) ==
    /\ IsSome(pin) /\ IsNone(pout)
    /\ pout' = Some([fn |-> fn, res |-> res])
    /\ UNCHANGED <<pipelineVars, cin, cout, pin, calls>>

\* MountainForecastSource._parse_float(text)
TextMtnParseFloat == Applied("mtn_parse_float", Mtn_parse_float(Some(Get(pin).text)))

\* SnowForecastSource._extract_float([text], 0)
TextSnowExtractFloat == Applied("snow_extract_float", Snow_extract_float(<<Get(pin).text>>, 0))

\* PowderSearchSource._extract_float([cell], 0)
TextPowderExtractFloat ==
    Applied("powder_extract_float", Powder_extract_float(<<Td(Get(pin).text)>>, 0))

\* PowderSearchSource._extract_int(cell)
TextPowderExtractInt == Applied("powder_extract_int", Powder_extract_int(Td(Get(pin).text)))

\* MountainForecastSource._parse_wind(text)
TextMtnParseWind == Applied("mtn_parse_wind", Mtn_parse_wind(Some(Get(pin).text)))

\* SnowForecastSource._parse_wind([text], 0)
TextSnowParseWind == Applied("snow_parse_wind", Snow_parse_wind(<<Get(pin).text>>, 0))

\* PowderSearchSource._parse_wind([cell], 0)
TextPowderParseWind == Applied("powder_parse_wind", Powder_parse_wind(<<Td(Get(pin).text)>>, 0))

\* SnowForecastSource._normalize_period(label)
TextSnowNormalizePeriod ==
    Applied("snow_normalize_period", Snow_normalize_period(Some(Get(pin).text)))

\* MountainForecastSource._normalize_period(label)
TextMtnNormalizePeriod == Applied("mtn_normalize_period", Mtn_normalize_period(Get(pin).text))

\* SnowForecastSource.parse of the one-column grid
CellSnow ==
    Applied("snow_cell", Snow_parse(Hakuba, Date1, OneColumnGrid(Get(pin).text, TRUE)))

\* MountainForecastSource._parse_forecast_table of the one-column grid
CellMtn ==
    Applied("mtn_cell", Mtn_parse_forecast_table(OneColumnGrid(Get(pin).text, FALSE),
                                                 Hakuba, Date1))

\* PowderSearchSource._parse_hourly_table of the one-row hourly table
CellPowder ==
    Applied("powder_cell", Powder_parse_hourly_table(OneHourTable(Get(pin).text), Date1))

\* SnowForecastSource.parse of the one-column grid labelled with the text
LabelSnow == Applied("snow_label", Snow_parse(Hakuba, Date1, OneLabelGrid(Get(pin).text)))

\* cells of the temperature-chill row: empty, a marker, a number
ChillTexts == { <<>>, <<"?">>, <<"-", "1", "2">> }

\* a grid of one column dated Date1 and labelled AM whose rain cell holds the
\* text and whose temperature-chill cell holds `chill`
NotesGrid(rain, chill) ==
    GridDoc(Some(<<Cell("td", <<>>, Some(IsoFormat(Date1)), None)>>),
            Some(<<Td(<<"A", "M">>)>>),
            [n \in RowNames \ {"days", "time"} |->
                IF n = "rain" THEN Some(<<Td(rain)>>)
                ELSE IF n = "temperature-chill" THEN Some(<<Td(chill)>>)
                ELSE None])

\* MountainForecastSource._parse_forecast_table of that grid
NotesMtn ==
    /\ IsSome(pin) /\ IsNone(pout)
    /\ \E chill \in ChillTexts :
          pout' = Some([fn |-> "mtn_notes", chill |-> chill,
                        res |-> Mtn_parse_forecast_table(NotesGrid(Get(pin).text, chill),
                                                         Hakuba, Date1)])
    /\ UNCHANGED <<pipelineVars, cin, cout, pin, calls>>

\* the period label given to _normalize_period of both grid adapters
BothNormalizePeriod ==
    Applied("both_normalize_period",
            [snow |-> Snow_normalize_period(Some(Get(pin).text)),
             mtn  |-> Mtn_normalize_period(Get(pin).text)])

\* the wind cell text given to _parse_wind of both grid adapters
BothParseWind ==
    Applied("both_parse_wind",
            [snow |-> Snow_parse_wind(<<Get(pin).text>>, 0),
             mtn  |-> Mtn_parse_wind(Some(Get(pin).text))])

NextText ==
    \/ TextMtnParseFloat
    \/ TextSnowExtractFloat
    \/ TextPowderExtractFloat
    \/ TextPowderExtractInt
    \/ TextMtnParseWind
    \/ TextSnowParseWind
    \/ TextPowderParseWind
    \/ TextSnowNormalizePeriod
    \/ TextMtnNormalizePeriod
    \/ CellSnow
    \/ CellMtn
    \/ CellPowder
    \/ LabelSnow
    \/ NotesMtn
    \/ BothNormalizePeriod
    \/ BothParseWind

SpecText == InitText /\ [][NextText]_vars


(***************************************************************************)
(* Claims on the extraction functions, under SpecText                      *)
(***************************************************************************)
\* the text the function was applied to, and what it gave
Text == Get(pin).text
Fn == Get(pout).fn
Res == Get(pout).res

\* the fields a period takes from the cells of its column, and those of them
\* that are numbers
PeriodCellFields ==
    {"snowfall_cm", "temp_high_c", "temp_low_c", "wind_speed_ms", "wind_gust_ms",
     "wind_dir", "weather_desc", "notes"}
PeriodNumberFields == {"snowfall_cm", "temp_high_c", "temp_low_c"}

\* the same of an hourly entry
HourCellFields ==
    {"temperature_c", "precipitation_mm", "wind_direction", "wind_speed_ms",
     "sunshine_hours", "snow_depth_cm", "snowfall_cm"}
HourNumberFields ==
    {"temperature_c", "precipitation_mm", "sunshine_hours", "snow_depth_cm", "snowfall_cm"}

\* the records an adapter built from the one column, or the one hour, of cells
\* holding the text, with the fields the cells fill
CellRecords ==
    IF Fn = "mtn_cell" THEN Res.value.periods ELSE Res.value
CellFields == IF Fn = "powder_cell" THEN HourCellFields ELSE PeriodCellFields
NumberFields == IF Fn = "powder_cell" THEN HourNumberFields ELSE PeriodNumberFields
IsCellRun == IsSome(pout) /\ Fn \in {"snow_cell", "mtn_cell", "powder_cell"}

\* C11: in every adapter a cell holding a missing-value marker ("-", "--", "?",
\* "/" or nothing) leaves every field derived from it absent, and a cell
\* reporting 0 gives the number 0.0
C11_MarkersAbsent ==
    IsCellRun =>
        /\ Text \in MarkerTexts =>
              /\ ~Raised(Res)
              /\ Len(CellRecords) = 1
              /\ \A f \in CellFields : CellRecords[1][f] = None
        /\ Text = <<"0">> =>
              /\ ~Raised(Res)
              /\ Len(CellRecords) = 1
              /\ \A f \in NumberFields : CellRecords[1][f] = Some(0)


\* the English table of the period normalizer: the keys and their periods
EnglishPeriods ==
    { <<(<<"m","o","r","n","i","n","g">>), MORNING>>, <<(<<"a","m">>), MORNING>>,
      <<(<<"a","f","t","e","r","n","o","o","n">>), AFTERNOON>>, <<(<<"p","m">>), AFTERNOON>>,
      <<(<<"n","i","g","h","t">>), NIGHT>>, <<(<<"e","v","e","n","i","n","g">>), NIGHT>> }

\* the localized table, as the dict of the source file holds it
LocalizedPeriods == { <<(<<"?","?">>), AFTERNOON>>, <<(<<"?">>), NIGHT>> }

\* the label lower-cased, every character that is not a letter replaced by a space
Letters(label) ==
    [i \in DOMAIN label |->
        IF IsLowerAlpha(Lower(<<label[i]>>)[1]) THEN Lower(<<label[i]>>)[1] ELSE " "]

\* positions i..j of s hold one whole whitespace token
IsTokenAt(s, i, j) ==
    /\ i <= j
    /\ \A k \in i..j : s[k] # " "
    /\ i = 1 \/ s[i - 1] = " "
    /\ j = Len(s) \/ s[j + 1] = " "

\* the places where a token of the label is a key of the English table
EnglishHits(label) ==
    {h \in (1..Len(label)) \X (1..Len(label)) \X EnglishPeriods :
        /\ IsTokenAt(Letters(label), h[1], h[2])
        /\ SubSeq(Letters(label), h[1], h[2]) = h[3][1]}

\* the entries of the localized table whose token the raw label contains
LocalizedHits(label) ==
    {e \in LocalizedPeriods :
        \E i \in 1..Len(label) :
            /\ i + Len(e[1]) - 1 <= Len(label)
            /\ SubSeq(label, i, i + Len(e[1]) - 1) = e[1]}

\* what the claim says the normalizer gives for the label
IsNormalized(label, period) ==
    IF EnglishHits(label) # {}
    THEN \E h \in EnglishHits(label) :
            /\ \A g \in EnglishHits(label) : h[1] <= g[1]
            /\ period = Some(h[3][2])
    ELSE IF LocalizedHits(label) # {}
    THEN \E e \in LocalizedHits(label) : period = Some(e[2])
    ELSE period = None

\* C12: the period normalizer gives the period of the first token of the
\* cleaned label that is a key of the English table; when no token is one, the
\* period of a localized token the raw label contains; otherwise nothing, and
\* the parser then skips the column with that label and does not fail
C12_NormalizePeriod ==
    /\ IsSome(pout) /\ Fn = "snow_normalize_period" => IsNormalized(Text, Res)
    /\ IsSome(pout) /\ Fn = "snow_label" =>
          /\ ~Raised(Res)
          /\ IsNormalized(Text, None) => Res.value = <<>>
          /\ ~IsNormalized(Text, None) =>
                /\ Len(Res.value) = 1
                /\ IsNormalized(Text, Some(Res.value[1].period))

\* a token of the English table inside a longer phrase with punctuation, ahead
\* of a localized token
C12_Witness ==
    /\ IsSome(pout) /\ Fn = "snow_normalize_period"
    /\ Text = <<"A","M","?">>
    /\ Res = Some(MORNING)




\* ms, in hundredths, is kmh / 3.6 rounded to two decimals (kmh an integer):
\* no other number of two decimals is nearer to kmh / 3.6
IsRoundedMs(ms, kmh) ==
    /\ ms \in 0..(100 * kmh)
    /\ (36 * ms - 1000 * kmh) \in (0 - 18)..18

\* the m/s value of an optional km/h integer: absent when that is absent
IsRoundedOpt(ms, kmh) ==
    IF IsNone(kmh) THEN ms = None ELSE IsSome(ms) /\ IsRoundedMs(Get(ms), Get(kmh))

\* C13: for a wind text <s>-<g><DIR> (spaces and a km/h unit allowed) the wind
\* parser gives direction DIR, speed_kmh s, gust_kmh g, and speed_ms and gust_ms
\* the two rounded to two decimals after division by 3.6; without -<g> both
\* gust values are absent; the same values reach the period of the column
C13_WindConversion ==
    \A c \in WindCases :
        IsSome(pout) /\ Text = c.text =>
            /\ Fn = "mtn_parse_wind" =>
                  /\ Res[1] = Some(c.dir)
                  /\ Res[3] = Some(100 * c.s)
                  /\ Res[5] = (IF IsNone(c.g) THEN None ELSE Some(100 * Get(c.g)))
                  /\ IsRoundedOpt(Res[2], Some(c.s))
                  /\ IsRoundedOpt(Res[4], c.g)
            /\ Fn = "mtn_cell" =>
                  /\ ~Raised(Res) /\ Len(Res.value.periods) = 1
                  /\ Res.value.periods[1].wind_dir = Some(c.dir)
                  /\ IsRoundedOpt(Res.value.periods[1].wind_speed_ms, Some(c.s))
                  /\ IsRoundedOpt(Res.value.periods[1].wind_gust_ms, c.g)
            /\ Fn = "snow_parse_wind" => IsRoundedOpt(Res[1], Some(c.s))

\* "20-30NW" parsed: 5.56 m/s with gusts of 8.33 m/s from NW
C13_Witness ==
    /\ IsSome(pout) /\ Fn = "mtn_parse_wind"
    /\ Text = <<"2","0","-","3","0","N","W">>
    /\ Res = <<Some(<<"N","W">>), Some(556), Some(2000), Some(833), Some(3000)>>




\* C14: the wind parser gives, for "Calm" and for "calm", no direction, a speed
\* of 0.0 m/s and 0.0 km/h and no gust; the period of a column whose wind cell
\* says so has wind speed 0.0 and no direction and gust
C14_Calm ==
    IsSome(pout) /\ Text \in {<<"C","a","l","m">>, <<"c","a","l","m">>} =>
        /\ Fn = "mtn_parse_wind" => Res = <<None, Some(0), Some(0), None, None>>
        /\ Fn = "mtn_cell" =>
              /\ ~Raised(Res) /\ Len(Res.value.periods) = 1
              /\ Res.value.periods[1].wind_speed_ms = Some(0)
              /\ Res.value.periods[1].wind_dir = None
              /\ Res.value.periods[1].wind_gust_ms = None

\* "calm" parsed
C14_Witness ==
    /\ IsSome(pout) /\ Fn = "mtn_parse_wind"
    /\ Text = <<"c","a","l","m">>
    /\ Res[2] = Some(0)


\* texts holding a number: the value of the leftmost decimal numeral in each, in
\* hundredths, and that value cut to an integer
NumeralCases ==
    { [text |-> <<"0">>, hundredths |-> 0, int |-> 0],
      [text |-> <<"0",".","0">>, hundredths |-> 0, int |-> 0],
      [text |-> <<"1","2">>, hundredths |-> 1200, int |-> 12],
      [text |-> <<"-","3",".","5">>, hundredths |-> 0 - 350, int |-> 0 - 3],
      [text |-> <<"1",".","2","5">>, hundredths |-> 125, int |-> 1],
      [text |-> <<"x","-","2","y">>, hundredths |-> 0 - 200, int |-> 0 - 2],
      [text |-> <<"a","1",".","5",".","2">>, hundredths |-> 150, int |-> 1],
      [text |-> <<"-",".","5">>, hundredths |-> 500, int |-> 5],
      [text |-> <<"3",".">>, hundredths |-> 300, int |-> 3],
      [text |-> <<"1","-","2">>, hundredths |-> 100, int |-> 1],
      [text |-> <<"s","n","o","w"," ","7","c","m">>, hundredths |-> 700, int |-> 7],
      [text |-> <<"1","2","0">>, hundredths |-> 12000, int |-> 120],
      [text |-> <<"-","0">>, hundredths |-> 0, int |-> 0] }

\* the text holds a decimal numeral: some digit is in it
HasNumeral(text) == \E i \in 1..Len(text) : text[i] \in {"0","1","2","3","4","5","6","7","8","9"}

\* C15: a float extractor of any adapter gives nothing exactly when the text
\* holds no decimal numeral, and otherwise the value of the leftmost one; the
\* integer extractor gives that value cut to an integer; none of them raises
C15_Extractors ==
    IsSome(pout) =>
        /\ Fn \in {"mtn_parse_float", "snow_extract_float", "powder_extract_float"} =>
              /\ Res = None <=> ~HasNumeral(Text)
              /\ \A c \in NumeralCases : Text = c.text => Res = Some(c.hundredths)
        /\ Fn = "powder_extract_int" =>
              /\ ~Raised(Res)
              /\ Res.value = None <=> ~HasNumeral(Text)
              /\ \A c \in NumeralCases : Text = c.text => Res.value = Some(c.int)




(***************************************************************************)
(* Claims on the column-to-date sequence, under SpecParse                  *)
(***************************************************************************)
\* the cells of the days row of the document, and the sequences the two
\* adapters built from it
DaysRow == Get(SelectRow(Get(Get(pin).doc.grid), "days"))
SnowDates == Get(pout).res
MtnDates == Get(pout).aux
DatesBuilt == IsSome(pout) /\ Get(pout).parser = "days" /\ Returned(SnowDates) /\ Returned(MtnDates)

\* the number of columns a cell spans: its colspan, one when it has none
SpanOf(cell) == IF FalsyText(cell.colspan) THEN 1 ELSE DigitsVal(Get(cell.colspan))

\* the number of columns the first j cells span together
RECURSIVE SpanSum(_, _)
SpanSum(cells, j) == IF j = 0 THEN 0 ELSE SpanSum(cells, j - 1) + SpanOf(cells[j])

\* seq is the concatenation, in cell order, of one run per cell: as many
\* entries as the cell spans, each the date of the cell
IsRunsOf(seq, cells) ==
    /\ Len(seq) = SpanSum(cells, Len(cells))
    /\ \A j \in 1..Len(cells) :
          \A k \in (SpanSum(cells, j - 1) + 1)..SpanSum(cells, j) : seq[k] = cells[j].date

\* the cells of a row with the tags
CellsTagged(row, tags) ==
    [i \in 1..Cardinality({k \in 1..Len(row) : row[k].tag \in tags}) |->
        row[CHOOSE k \in 1..Len(row) :
                /\ row[k].tag \in tags
                /\ Cardinality({m \in 1..k : row[m].tag \in tags}) = i]]

\* C16 as stated: in both adapters every cell of the date header row
\* contributes a run of as many columns as it spans, dated as the cell is, one
\* column when it has no colspan, and the column-to-date sequence is the
\* concatenation of the runs in cell order
C16_EveryCellExpands ==
    DatesBuilt => IsRunsOf(SnowDates.value, DaysRow) /\ IsRunsOf(MtnDates.value, DaysRow)

\* C16 amended: MountainForecastSource expands the td cells of the date header
\* row only, each to as many columns as it spans (one without colspan) dated as
\* the cell is, and its sequence is the concatenation of these runs in cell
\* order; SnowForecastSource expands the th and td cells so, and then drops the
\* first entry of the sequence when that entry has no date
C16_ColspanExpansion ==
    DatesBuilt =>
        /\ IsRunsOf(MtnDates.value, CellsTagged(DaysRow, {"td"}))
        /\ \/ /\ IsRunsOf(SnowDates.value, DaysRow)
              /\ SnowDates.value = <<>> \/ SnowDates.value[1] # None
           \/ IsRunsOf(<<None>> \o SnowDates.value, DaysRow)

\* a cell of 2025-06-02 spanning two columns, then a cell of 2025-06-03
C16_Witness ==
    /\ DatesBuilt
    /\ Len(DaysRow) = 2
    /\ DaysRow[1].colspan = Some(<<"2">>)
    /\ SnowDates.value = <<Some(IsoFormat(Date1)), Some(IsoFormat(Date1)), Some(IsoFormat(Date2))>>
    /\ MtnDates.value = SnowDates.value




(***************************************************************************)
(* Further claims on collect, under SpecCollect                            *)
(***************************************************************************)
\* the mountain configures no URL for the adapter: no key, or an empty URL
Unconfigured(source_name) ==
    \/ source_name \notin DOMAIN In.mountain.sources
    \/ UrlStr(In.mountain.sources[source_name]) = ""

\* C17: collect of every adapter raises the configuration error (ValueError)
\* when the mountain configures no URL for it, before anything is read from the
\* environment, the network or the disk; MountainForecastSource raises it too
\* and returns no placeholder
C17_ConfigurationError ==
    \A a \in Adapters :
        IsCollect(a) /\ Unconfigured(a) =>
            /\ Raised(Out.res)
            /\ Out.res.exc.type = "ValueError"
            /\ Out.io = <<>>

\* MountainForecastSource.collect for a mountain whose URL is the empty
\* string, the live site down and the offline flag set
C17_Witness ==
    /\ IsCollect(MOUNTAINFORECAST)
    /\ In.mountain = Blank
    /\ LiveFails /\ OfflineFlagSet
    /\ Raised(Out.res)


\* the hours of the summary of the ForecastDaily returned
HoursOut == Out.res.value.daily_summary_json.hours

\* C18: PowderSearchSource yields no ForecastPeriod: parse of the document read
\* returns the empty list and the ForecastDaily collect returns has no periods;
\* the hours of its summary are in ascending order of hour
C18_PowderHoursOnly ==
    IsCollect(POWDERSEARCH) =>
        /\ Returned(In.env.live) =>
              Powder_parse(In.mountain, In.target_date, In.env.live.value) = Return(<<>>)
        /\ Returned(Out.res) =>
              /\ Out.res.value.periods = <<>>
              /\ \A i, j \in 1..Len(HoursOut) : i < j => HoursOut[i].hour <= HoursOut[j].hour

\* a document whose rows of the target day come at 21h, then 9h
C18_Witness ==
    /\ IsCollect(POWDERSEARCH)
    /\ NonLocal(In.mountain, POWDERSEARCH)
    /\ In.env.live = Return(SampleDoc)
    /\ In.target_date = Date1
    /\ Returned(Out.res)
    /\ Len(HoursOut) = 2
    /\ HoursOut[1].hour = 9 /\ HoursOut[2].hour = 21


\* the call made was fetch_text of the adapter
IsFetchText(source_name) ==
    IsSome(cout) /\ Out.op = "fetch_text" /\ Out.adapter = source_name

\* the mountain configures a file:// or schemeless URL for the adapter
LocalUrl(source_name) ==
    /\ source_name \in DOMAIN In.mountain.sources
    /\ In.mountain.sources[source_name].scheme \in {"", "file"}

\* the files the local URLs of the model name
LocalFileOf(url_str) ==
    IF url_str = "file:///data/niseko.html" THEN "/data/niseko.html"
    ELSE IF url_str = "pages/niseko.html" THEN "/cwd/pages/niseko.html"
    ELSE "/cwd"

\* C20: for a file:// or schemeless URL, fetch_text and _fetch_with_fallback
\* read the file the URL names and do nothing else: no request is sent, the
\* offline flag is not read and no sample file is looked for; they return the
\* content of the file, and when it cannot be read the error of the read is
\* raised as it is, whatever the offline flag and the samples on disk
C20_LocalUrl ==
    \A a \in Adapters :
        (IsFetch(a) \/ IsFetchText(a)) /\ LocalUrl(a) =>
            /\ Out.io = << <<"read", LocalFileOf(ConfiguredUrl(a))>> >>
            /\ LocalFileOf(ConfiguredUrl(a)) \in DOMAIN In.env.fs =>
                  Out.res = Return(In.env.fs[LocalFileOf(ConfiguredUrl(a))])
            /\ LocalFileOf(ConfiguredUrl(a)) \notin DOMAIN In.env.fs =>
                  /\ Raised(Out.res)
                  /\ Out.res.exc.type = (IF ConfiguredUrl(a) = "" THEN "IsADirectoryError"
                                         ELSE "FileNotFoundError")

\* _fetch_with_fallback on a schemeless URL whose file is missing, with the
\* offline flag set and the sample of the date on disk
C20_Witness ==
    /\ IsFetch(SNOWFORECAST)
    /\ LocalUrl(SNOWFORECAST)
    /\ OfflineFlagSet /\ SamplePresent(SNOWFORECAST)
    /\ Raised(Out.res)
    /\ Out.res.exc.type = "FileNotFoundError"




(***************************************************************************)
(* Specification SpecRepeat: collect called again and again on the same    *)
(* adapter instances, as run_daily does for one mountain after another     *)
(***************************************************************************)
\* most collect calls in a row
MaxCalls == 3

\* the environments of the calls: the live site answering with a document or
\* failing, the offline flag set and other samples of Date1 on disk
RepeatEnvs ==
    [flag       : {Some("1")},
     sample_dir : {None},
     live       : {Return(SampleDoc), Raise([type |-> "HTTPError", msg |-> "404 Not Found"])},
     fs         : {Files({SamplePath(None, a, Date1) : a \in Adapters}, TwinDoc)},
     now        : Clock]

InitRepeat ==
    /\ PipelineIdle
    /\ ParseIdle
    /\ CallIdle

\* variant of a call: the adapter keeps its list of period entries from one
\* call to the next
RepeatCallAccumulating(source_name) ==
    /\ Len(calls) < MaxCalls
    /\ \E env \in RepeatEnvs :
          LET res   == Collect(source_name, env, Hakuba, Date1).res
              prior == {i \in 1..Len(calls) :
                           calls[i].adapter = source_name /\ Returned(calls[i].res)}
              kept  == IF prior = {} THEN <<>>
                       ELSE calls[CHOOSE i \in prior : \A k \in prior : k <= i].res.value.periods
          IN  calls' = Append(calls,
                          [adapter |-> source_name, env |-> env, mountain |-> Hakuba,
                           target_date |-> Date1,
                           res |-> IF Raised(res) THEN res
                                   ELSE Return([res.value EXCEPT !.periods = kept \o @])])
    /\ UNCHANGED <<pipelineVars, cin, cout, pin, pout>>

\* source.collect(mountain, target_date) on the instance of the adapter, after
\* the calls made so far: every call starts from empty lists and reads nothing
\* an earlier call left behind
RepeatCall(source_name) ==
    /\ Len(calls) < MaxCalls
    /\ \E env \in RepeatEnvs :
          calls' = Append(calls,
                      [adapter |-> source_name, env |-> env, mountain |-> Hakuba,
                       target_date |-> Date1,
                       res |-> Collect(source_name, env, Hakuba, Date1).res])
    /\ UNCHANGED <<pipelineVars, cin, cout, pin, pout>>

RepeatSnow == RepeatCall(SNOWFORECAST)

RepeatMtn == RepeatCall(MOUNTAINFORECAST)

RepeatPowder == RepeatCall(POWDERSEARCH)

NextRepeat == RepeatSnow \/ RepeatMtn \/ RepeatPowder

SpecRepeat == InitRepeat /\ [][NextRepeat]_vars

\* the result of a call with the fetch timestamp left out
Timeless(res) == IF Raised(res) THEN res ELSE Return(WithoutTimestamp(res.value))

\* two calls had the same inputs: adapter, mountain, target date, and an
\* environment that differs in the time of day at most
SameInputs(c, d) ==
    /\ c.adapter = d.adapter
    /\ c.mountain = d.mountain
    /\ c.target_date = d.target_date
    /\ [c.env EXCEPT !.now = 0] = [d.env EXCEPT !.now = 0]

RoundTripDone == IsSome(pout) /\ Get(pout).loader = "load_daily_json"

\* Python's == on two values, a model instance compared field for field: a
\* Period member equals the text of its value, a date equals no text, a dict
\* equals no model instance
RECURSIVE PyEqual(_, _)
PyEqual(a, b) ==
    IF a.type = "list" /\ b.type = "list"
    THEN /\ Len(a.value) = Len(b.value)
         /\ \A i \in DOMAIN a.value : PyEqual(a.value[i], b.value[i])
    ELSE IF a.type = b.type /\ a.type \in {"ForecastPeriod", "ForecastDaily", "dict"}
    THEN /\ DOMAIN a.value = DOMAIN b.value
         /\ \A f \in DOMAIN a.value : PyEqual(a.value[f], b.value[f])
    ELSE /\ a.type = b.type \/ {a.type, b.type} = {"Period", "str"}
         /\ a.value = b.value

\* C21: for every ForecastDaily that collect returns, writing it with
\* write_daily_json and loading the written document back with
\* ForecastDaily.model_validate_json yields a ForecastDaily whose every field
\* equals the field of the original.
C21_RoundTrip ==
    RoundTripDone =>
        /\ IsSome(Get(pout).res)
        /\ \A f \in DOMAIN ForecastDailyFields :
              PyEqual(Get(Get(pout).res).value[f], DailyObject(Out.res.value)[f])




(***************************************************************************)
(* Properties of the grid parsers, column by column (SpecParse)            *)
(***************************************************************************)
\* _parse_forecast_table returned for a document that holds the grid
MtnParsed ==
    /\ IsSome(pout) /\ Get(pout).parser = MOUNTAINFORECAST
    /\ Returned(Get(pout).aux) /\ Returned(Get(pout).res)
    /\ IsSome(Get(pin).doc.grid)

MtnGrid == Get(Get(pin).doc.grid)

MtnSummary == Get(pout).aux.value

MtnPeriods == Get(pout).res.value

\* the expanded dates and the time labels of the grid
MtnDateLabels == Mtn_expand_dates(MtnGrid).value

MtnTimeLabels == Mtn_row_values(MtnGrid, "time")

MtnWidth == Min(Len(MtnDateLabels), Len(MtnTimeLabels))

\* the Period the label of a column normalizes to, none for a label not set
MtnPart(i) ==
    IF FalsyText(MtnTimeLabels[i]) THEN None ELSE Mtn_normalize_period(Get(MtnTimeLabels[i]))

\* the columns (numbered from 1) below the common length whose date and label
\* are both set and whose label normalizes to a Period
MtnSurviving ==
    {i \in 1..MtnWidth :
        /\ ~FalsyStr(MtnDateLabels[i])
        /\ ~FalsyText(MtnTimeLabels[i])
        /\ IsSome(MtnPart(i))}

\* those of them dated the target date
MtnOnTarget ==
    {i \in MtnSurviving : Get(MtnDateLabels[i]) = IsoFormat(Get(pin).target_date)}

\* the k-th smallest element of a set of numbers
Nth(S, k) == CHOOSE i \in S : Cardinality({j \in S : j < i}) = k - 1

\* C22: in provider B's grid parse the summary columns are exactly one record,
\* in column order and whatever the date, for each column below min(number of
\* expanded dates, number of time labels) whose date and time label are both
\* set and whose label normalizes to a Period; the periods are exactly the
\* subsequence of those columns dated the target date; so there are never more
\* periods than summary columns, and three columns night / AM / PM all dated
\* the target date give 3 of each.
C22_SummaryAndPeriods ==
    MtnParsed =>
        /\ Len(MtnSummary) = Cardinality(MtnSurviving)
        /\ \A k \in DOMAIN MtnSummary :
              MtnSummary[k] =
                  Mtn_summary_entry(MtnDateLabels[Nth(MtnSurviving, k)],
                                    MtnTimeLabels[Nth(MtnSurviving, k)],
                                    Mtn_values(MtnGrid, Nth(MtnSurviving, k) - 1))
        /\ Len(MtnPeriods) = Cardinality(MtnOnTarget)
        /\ \A k \in DOMAIN MtnPeriods :
              MtnPeriods[k] =
                  Mtn_period(Get(pin).mountain, Get(pin).target_date,
                             Get(MtnPart(Nth(MtnOnTarget, k))),
                             Mtn_values(MtnGrid, Nth(MtnOnTarget, k) - 1))
        /\ Len(MtnPeriods) <= Len(MtnSummary)
        /\ ( /\ MtnWidth = FixtureColumns
             /\ [i \in 1..MtnWidth |-> MtnPart(i)]
                    = <<Some(NIGHT), Some(MORNING), Some(AFTERNOON)>>
             /\ \A i \in 1..MtnWidth : MtnDateLabels[i] = Some(IsoFormat(Get(pin).target_date)) )
           => Len(MtnSummary) = 3 /\ Len(MtnPeriods) = 3

\* a grid of three columns of which one names no period and one is of another
\* day: two summary columns, one period
C22_Witness ==
    /\ MtnParsed
    /\ MtnWidth = FixtureColumns
    /\ Cardinality(MtnSurviving) = 2
    /\ Cardinality(MtnOnTarget) = 1
    /\ Len(MtnSummary) = 2 /\ Len(MtnPeriods) = 1
    /\ MtnSummary[2].date = Some(IsoFormat(Date2))




\* SnowForecastSource.parse returned for a grid that holds a days and a time row
SnowParsed ==
    /\ IsSome(pout) /\ Get(pout).parser = SNOWFORECAST /\ Returned(Get(pout).res)
    /\ IsSome(Get(pin).doc.grid)
    /\ IsSome(SelectRow(Get(Get(pin).doc.grid), "days"))
    /\ IsSome(SelectRow(Get(Get(pin).doc.grid), "time"))

SnowGrid == Get(Get(pin).doc.grid)

SnowPeriods == Get(pout).res.value

\* the cells of a row as a parser selects them (none for a row that is absent)
CellsOf(table, row_name, tags) ==
    IF IsNone(SelectRow(table, row_name)) THEN <<>>
    ELSE FindAll(Get(SelectRow(table, row_name)), tags)

\* the j-th of some cells as a row of its own, an empty row beyond the last
ColumnOf(cells, j) == IF j \in DOMAIN cells THEN <<cells[j]>> ELSE <<>>

\* the concatenation of f[1], ..., f[n]
RECURSIVE ConcatTo(_, _)
ConcatTo(f, n) == IF n = 0 THEN <<>> ELSE ConcatTo(f, n - 1) \o f[n]

SnowDateSeq == Snow_date_sequence(Get(SelectRow(SnowGrid, "days"))).value

SnowTimeCells == CellsOf(SnowGrid, "time", {"td", "th"})

\* the grid cut down to the cells at one position of every data row, behind a
\* row label
SnowColumnTable(j) ==
    [n \in RowNames |->
        IF IsNone(SelectRow(SnowGrid, n)) THEN None
        ELSE Some(<<Th(<<>>)>> \o ColumnOf(CellsOf(SnowGrid, n, {"td", "th"}), j))]

\* the periods of provider A when column i (from 1) pairs the i-th date entry
\* with the cell of the time row and the cells of the data rows that are the
\* i-th counted from the given origins
SnowPaired(timeOrigin, dataOrigin) ==
    ConcatTo([i \in 1..Min(Len(SnowDateSeq), Len(SnowTimeCells) - timeOrigin) |->
                 Snow_column(SnowColumnTable(i + dataOrigin), Get(pin).mountain,
                             Get(pin).target_date, <<SnowDateSeq[i]>>,
                             <<GetText(SnowTimeCells[i + timeOrigin])>>, 0)],
             Min(Len(SnowDateSeq), Len(SnowTimeCells) - timeOrigin))

MtnTimeCells == CellsOf(MtnGrid, "time", {"td"})

\* the grid cut down to the td cells at one position of every data row
MtnColumnTable(j) ==
    [n \in RowNames |->
        IF IsNone(SelectRow(MtnGrid, n)) THEN None
        ELSE Some(ColumnOf(CellsOf(MtnGrid, n, {"td"}), j))]

\* what provider B emits for column i (from 1) when the column pairs the i-th
\* date entry with the i-th td cell of the time row and of every data row
MtnPairedColumn(i) ==
    Mtn_column(MtnColumnTable(i), Get(pin).mountain, Get(pin).target_date,
               MtnDateLabels[i], Mtn_cell_text(MtnTimeCells[i]), 0)

MtnPaired(field) ==
    ConcatTo([i \in 1..Min(Len(MtnDateLabels), Len(MtnTimeCells)) |-> MtnPairedColumn(i)[field]],
             Min(Len(MtnDateLabels), Len(MtnTimeCells)))

\* C23: in both grid parsers column i pairs the i-th expanded date entry with
\* the i-th cell of the time-label row and the i-th cell of every tracked data
\* row, all rows counted from the same origin; the date and time-label
\* sequences are cut to the shorter of the two, no column beyond that length
\* is emitted, and a data row shorter than the column index gives absent
\* values for the column.
C23_SameOrigin ==
    /\ SnowParsed => \E origin \in {0, 1} : SnowPeriods = SnowPaired(origin, origin)
    /\ MtnParsed => MtnPeriods = MtnPaired("periods") /\ MtnSummary = MtnPaired("summary")


(***************************************************************************)
(* Properties of the hourly table parser (SpecParse)                       *)
(***************************************************************************)
\* _parse_hourly_table returned for a document that holds the hourly table
HourlyParsed ==
    /\ IsSome(pout) /\ Get(pout).parser = POWDERSEARCH /\ Returned(Get(pout).aux)
    /\ IsSome(Get(pin).doc.hourly)

BodyRows == Get(Get(pin).doc.hourly)

ParsedHours == Get(pout).aux.value

\* a header row; a row of one cell spanning columns
IsHeaderRow(row) == row # <<>> /\ row[1].tag = "th"

IsSpanningRow(row) == Len(row) = 1 /\ IsSome(row[1].colspan)

\* the rows at or above row r whose first cell carries a rowspan
DayRowsUpTo(r) == {q \in 1..r : BodyRows[q] # <<>> /\ BodyRows[q][1].rowspan}

\* the governing day of row r: the integer of the most recent such cell, none
\* before any day cell or when the cell holds no integer
GoverningDay(r) ==
    IF DayRowsUpTo(r) = {} THEN None
    ELSE Powder_extract_int(BodyRows[Nth(DayRowsUpTo(r), Cardinality(DayRowsUpTo(r)))][1]).value

\* the cells of row r after its day cell, if it has one
HourCells(r) == IF BodyRows[r][1].rowspan THEN Tail(BodyRows[r]) ELSE BodyRows[r]

\* the rows of the target day that hold an hour
TargetDayRows ==
    {r \in DOMAIN BodyRows :
        /\ BodyRows[r] # <<>>
        /\ ~IsHeaderRow(BodyRows[r]) /\ ~IsSpanningRow(BodyRows[r])
        /\ GoverningDay(r) = Some(Get(pin).target_date.day)
        /\ HourCells(r) # <<>>
        /\ IsSome(Powder_extract_int(HourCells(r)[1]).value)}

\* C24: provider C's hours sequence holds exactly one entry, in row order, for
\* each body row whose governing day (the integer of the most recent first
\* cell carrying a rowspan at or above the row) is the target date's day of
\* month and whose hour cell holds an integer; rows of other days, header
\* rows, rows of one column-spanning cell and rows before any day cell add no
\* entry.
C24_HoursOfTargetDay ==
    HourlyParsed =>
        /\ Len(ParsedHours) = Cardinality(TargetDayRows)
        /\ \A k \in DOMAIN ParsedHours :
              ParsedHours[k] =
                  Powder_entry(HourCells(Nth(TargetDayRows, k)),
                               Get(Powder_extract_int(HourCells(Nth(TargetDayRows, k))[1]).value))

\* a table of three rows: the row that opens day 2, the row that opens day 3
\* and a row that continues day 3; only the first gives an entry
C24_Witness ==
    /\ HourlyParsed
    /\ Len(BodyRows) = 3
    /\ DayRowsUpTo(3) = {1, 2}
    /\ GoverningDay(1) = Some(2) /\ GoverningDay(3) = Some(3)
    /\ IsSome(Powder_extract_int(HourCells(3)[1]).value)
    /\ Len(ParsedHours) = 1


(***************************************************************************)
(* Properties of the notes (SpecText)                                      *)
(***************************************************************************)
\* rain cells holding a number: the leftmost numeral as it is written, and the
\* number it denotes as Python prints a float
RainCases ==
    { [text |-> <<"0">>, numeral |-> <<"0">>, float |-> <<"0", ".", "0">>],
      [text |-> <<"0", ".", "0">>, numeral |-> <<"0", ".", "0">>, float |-> <<"0", ".", "0">>],
      [text |-> <<"1", "2">>, numeral |-> <<"1", "2">>, float |-> <<"1", "2", ".", "0">>],
      [text |-> <<"-", "3", ".", "5">>, numeral |-> <<"-", "3", ".", "5">>, float |-> <<"-", "3", ".", "5">>],
      [text |-> <<"1", ".", "2", "5">>, numeral |-> <<"1", ".", "2", "5">>, float |-> <<"1", ".", "2", "5">>],
      [text |-> <<"x", "-", "2", "y">>, numeral |-> <<"-", "2">>, float |-> <<"-", "2", ".", "0">>],
      [text |-> <<"a", "1", ".", "5", ".", "2">>, numeral |-> <<"1", ".", "5">>, float |-> <<"1", ".", "5">>],
      [text |-> <<"3", ".">>, numeral |-> <<"3">>, float |-> <<"3", ".", "0">>],
      [text |-> <<"s", "n", "o", "w", " ", "7", "c", "m">>, numeral |-> <<"7">>, float |-> <<"7", ".", "0">>] }

RainEntry == <<"r", "a", "i", "n", "_", "m", "m", "=">>

ChillEntry == <<"w", "i", "n", "d", "_", "c", "h", "i", "l", "l", "_", "c", "=">>

\* the period provider A built from the one column whose rain cell holds the text
SnowNotesRun == IsSome(pout) /\ Fn = "snow_cell" /\ Returned(Res)

\* the period and the summary column provider B built from the one column whose
\* rain and temperature-chill cells hold the text and the chill text
MtnNotesRun == IsSome(pout) /\ Fn = "mtn_notes" /\ Returned(Res)

\* the text a chill cell puts into the notes, none for a cell without a number
ChillPrinted(chill) == IF chill = <<"-", "1", "2">> THEN Some(<<"-", "1", "2", ".", "0">>) ELSE None

\* entries joined with ";", none when there is none
Joined(rain, chill) ==
    IF IsNone(rain) /\ IsNone(chill) THEN None
    ELSE IF IsNone(chill) THEN Some(RainEntry \o Get(rain))
    ELSE IF IsNone(rain) THEN Some(ChillEntry \o Get(chill))
    ELSE Some(RainEntry \o Get(rain) \o <<";">> \o ChillEntry \o Get(chill))

\* C25: notes are built only from the secondary values that are present:
\* provider A sets notes to rain_mm=<rain numeral> exactly when the rain cell
\* of the column holds a numeral, and leaves them absent otherwise; provider B
\* joins with ";" the entries rain_mm=<rain> and wind_chill_c=<chill>, in that
\* order, each exactly when its value is present, and leaves the notes absent
\* when neither is.
C25_Notes ==
    /\ SnowNotesRun =>
          /\ Len(Res.value) = 1
          /\ Res.value[1].notes = None <=> ~HasNumeral(Text)
          /\ \A c \in RainCases :
                Text = c.text => Res.value[1].notes = Some(RainEntry \o c.numeral)
    /\ MtnNotesRun =>
          /\ Len(Res.value.periods) = 1 /\ Len(Res.value.summary) = 1
          /\ IsSome(Res.value.summary[1].rain_mm) <=> HasNumeral(Text)
          /\ IsSome(Res.value.summary[1].temperature_chill_c) <=> HasNumeral(Get(pout).chill)
          /\ Res.value.periods[1].notes =
                Joined(IF IsSome(Res.value.summary[1].rain_mm)
                       THEN Some(FormatFloat(Get(Res.value.summary[1].rain_mm))) ELSE None,
                       IF IsSome(Res.value.summary[1].temperature_chill_c)
                       THEN Some(FormatFloat(Get(Res.value.summary[1].temperature_chill_c)))
                       ELSE None)
          /\ \A c \in RainCases :
                Text = c.text =>
                    Res.value.periods[1].notes = Joined(Some(c.float), ChillPrinted(Get(pout).chill))
          /\ ~HasNumeral(Text) =>
                Res.value.periods[1].notes = Joined(None, ChillPrinted(Get(pout).chill))

\* provider B joined both entries
C25_Witness ==
    /\ MtnNotesRun
    /\ Text = <<"0">> /\ Get(pout).chill = <<"-", "1", "2">>
    /\ Res.value.periods[1].notes = Some(<<"r", "a", "i", "n", "_", "m", "m", "=", "0", ".", "0", ";", "w", "i", "n", "d", "_", "c", "h", "i", "l", "l", "_", "c", "=", "-", "1", "2", ".", "0">>)






(***************************************************************************)
(* The two grid adapters side by side (SpecText)                           *)
(***************************************************************************)
\* C26: the two grid adapters apply the same period-normalization and
\* wind-extraction contract: for every period label and every wind cell text
\* SnowForecastSource and MountainForecastSource derive the same Period (or
\* both none), the same wind direction and the same wind speed in m/s.
C26_SameContract ==
    IsSome(pout) =>
        /\ Fn = "both_normalize_period" => Res.snow = Res.mtn
        /\ Fn = "both_parse_wind" =>
              /\ Res.snow[2] = Res.mtn[1]
              /\ Res.snow[1] = Res.mtn[2]


(***************************************************************************)
(* Labels that name no period (SpecText)                                   *)
(***************************************************************************)
\* the labels that consist of a missing-value marker only
MarkerLabels == { <<"?">>, <<"-">>, <<"-","-">>, <<"/">> }

\* C27: a period label that holds no English period token and no localized
\* period word normalizes to none in provider A and its column is skipped; in
\* particular a label that is only a missing-value marker ("?", "-", "--",
\* "/") never yields a ForecastPeriod.
C27_MarkerLabelsSkipped ==
    /\ (IsSome(pout) /\ Fn = "snow_normalize_period") =>
          /\ (EnglishHits(Text) = {} /\ LocalizedHits(Text) = {}) => Res = None
          /\ Text \in MarkerLabels => Res = None
    /\ (IsSome(pout) /\ Fn = "snow_label") =>
          /\ (EnglishHits(Text) = {} /\ LocalizedHits(Text) = {}) => Res = Return(<<>>)
          /\ Text \in MarkerLabels => Res = Return(<<>>)


(***************************************************************************)
(* Wind texts without a number (SpecText)                                  *)
(***************************************************************************)
\* the text states calm, in whatever case
StatesCalm(text) == Contains(Lower(text), <<"c","a","l","m">>)

\* C28: provider B's wind parser reports a zero speed only for a wind text that
\* states calm or holds a numeric zero: every wind text that holds no digit
\* and no calm word (a cell holding only the unit km/h, say) gives all five
\* results absent, never the speed 0.0.
C28_ZeroOnlyWhenStated ==
    (IsSome(pout) /\ Fn = "mtn_parse_wind") =>
        /\ (~HasNumeral(Text) /\ ~StatesCalm(Text)) => Res = <<None, None, None, None, None>>
        /\ Res[2] = Some(0) => (HasNumeral(Text) \/ StatesCalm(Text))


(***************************************************************************)
(* No rollback in run_daily (Spec)                                         *)
(***************************************************************************)
\* the pairs for which collect raised
FailedPairs ==
    {p \in Pairs : \E i \in EventsOf("collect", p[1], p[2]) : events[i][4] = "raise"}

\* the non-skipped pairs before p, in processing order
ProcessedBefore(p) == SelectSeq(NonSkipped, LAMBDA q : PairBefore(q, p))

\* the last of the results written to the file named f
LastWritten(f) ==
    results[CHOOSE j \in DOMAIN results :
                /\ daily_filename(results[j]) = f
                /\ \A i \in DOMAIN results : daily_filename(results[i]) = f => i <= j]

\* C29: run_daily has no rollback: when collect raises for the k-th
\* non-skipped pair, the documents of the k-1 pairs processed before it have
\* been written and are still as they were written, and no document is written
\* for the failing pair or for any later pair.
C29_NoRollback ==
    \A p \in FailedPairs :
        /\ Len(results) = Len(ProcessedBefore(p))
        /\ \A j \in DOMAIN results :
              /\ DailyOf(results[j], ProcessedBefore(p)[j][1], ProcessedBefore(p)[j][2])
              /\ \E i \in EventsOf("write", ProcessedBefore(p)[j][1], ProcessedBefore(p)[j][2]) :
                    events[i][4] = daily_filename(results[j])
        /\ DOMAIN folder = {daily_filename(results[j]) : j \in DOMAIN results}
        /\ \A f \in DOMAIN folder : folder[f] = daily_payload(LastWritten(f))
        /\ \A q \in Pairs : ~PairBefore(q, p) => EventsOf("write", q[1], q[2]) = {}

\* collect raised for the third non-skipped pair: two documents are in the folder
C29_Witness ==
    /\ pc = "raised"
    /\ FailedPairs # {}
    /\ Len(results) = 2
    /\ Cardinality(DOMAIN folder) = 2
    /\ \E q \in Pairs, p \in FailedPairs : PairBefore(p, q) /\ ~ShouldSkip(q[1], q[2])


(***************************************************************************)
(* Offline mode and the sample path (SpecCollect)                          *)
(***************************************************************************)
IsSamplePathCall(source_name) ==
    IsSome(cout) /\ Out.op = "_offline_sample_path" /\ Out.adapter = source_name

\* the sample directory: BACKCOUNTRY_OFFLINE_SAMPLE_DIR, "local_samples" when it
\* is unset, under the project root when it is relative
SampleDirectory ==
    IF IsNone(In.env.sample_dir) THEN "/project/local_samples"
    ELSE IF Get(In.env.sample_dir).abs THEN Get(In.env.sample_dir).name
    ELSE "/project/" \o Get(In.env.sample_dir).name

\* the paths _fetch_with_fallback looked for or read
PathsTouched == {Out.io[i][2] : i \in {k \in DOMAIN Out.io : Out.io[k][1] \in {"exists", "read"}}}

\* C30: offline mode is active if and only if BACKCOUNTRY_OFFLINE is set to a
\* non-empty string, whatever the string is ("0" activates it), and the sample
\* path is then <sample dir>/<source_name>_<target date ISO>.html, the same for
\* every mountain and URL: _offline_sample_path returns a path exactly when the
\* flag is set and non-empty, and after a failed live fetch of a non-local URL
\* _fetch_with_fallback touches that path and no other, exactly in offline mode.
C30_OfflineMode ==
    \A a \in Adapters :
        /\ IsSamplePathCall(a) =>
              /\ IsSome(Out.res) <=> (IsSome(In.env.flag) /\ Get(In.env.flag) # "")
              /\ In.env.flag = Some("0") => IsSome(Out.res)
              /\ IsSome(Out.res) =>
                    Get(Out.res) = SampleDirectory \o "/" \o a \o "_"
                                       \o IsoFormat(In.target_date) \o ".html"
        /\ (IsFetch(a) /\ NonLocal(In.mountain, a) /\ LiveFails
                /\ IsRequestException(In.env.live.exc)) =>
              PathsTouched = IF IsSome(In.env.flag) /\ Get(In.env.flag) # ""
                             THEN {SampleDirectory \o "/" \o a \o "_"
                                       \o IsoFormat(In.target_date) \o ".html"}
                             ELSE {}

\* the flag is "0" and the sample directory is relative: a path under the project
\* root is returned
C30_Witness ==
    /\ IsSamplePathCall(MOUNTAINFORECAST)
    /\ In.env.flag = Some("0")
    /\ In.env.sample_dir = Some([abs |-> FALSE, name |-> "samples"])
    /\ In.mountain = Unlisted
    /\ Out.res = Some("/project/samples/" \o MOUNTAINFORECAST \o "_" \o IsoFormat(In.target_date) \o ".html")



====
